---------------------------- MODULE Spec2Model ----------------------------
(***************************************************************************)
(* Model of the 52-week cache updater (src/52weeks.py) and of the 52-week  *)
(* refresh inside the daily dashboard (src/stockpricesdaily.py).  Both     *)
(* scripts read and write the same cache file, 52w_cache.json.             *)
(*                                                                         *)
(* Python values are tagged tuples <<type, payload>>, so that None, a      *)
(* number, a string, a list and a dict can be told apart and compared.     *)
(***************************************************************************)
EXTENDS Integers, Sequences, FiniteSets, TLC

VARIABLES
    today,      \* the local (Asia/Kolkata) calendar day, as a day index
    disk,       \* the cache file CACHE_FILE: [kind, text]
    script,     \* which script runs the current pass: "52weeks" or "daily"
    force,      \* main(force_refresh=...)
    single,     \* main(single_ticker=...): None or a str
    pc,         \* position of the pass
    path,       \* "none", "fresh" (skipped) or "stale" (refresh dispatched)
    fresh,      \* value of the freshness expression the pass evaluated
    cache,      \* what load_cache / load_52w_cache returned
    tickers,    \* the list of tickers the dispatcher was asked for
    fut,        \* the futures: ticker -> [st, vals, overran]
    yielded,    \* futures as_completed has yielded so far
    results,    \* the dispatcher's results dict: ticker -> quote
    payload,    \* the envelope the pass handed to save
    saved,      \* outcome of the save call of the pass ("none": not called)
    \* one run of fetch_52w_for_symbol (52weeks.py), followed on its own
    rpc,        \* position of the run: "attempt", "sleep", "returned"
    attempt,    \* the loop variable `attempt`
    outcomes,   \* what each attempt so far did: "raised" or "completed"
    queries,    \* the history queries (periods) the run has issued
    served,     \* what the upstream served in the latest attempt
    ret,        \* the vals of the returned tuple (sym, vals)
    \* one call of safe_float (52weeks.py), followed on its own
    sf_pc,      \* "none", "call" or "returned"
    sf_x,       \* the argument x
    sf_ret,     \* what the call returned, Raises if an exception left it
    \* one run of a dashboard script (stockpricesdaily.py, stockprices.py,
    \* 52weeksboard.py), followed on its own
    view,       \* which script: "daily", "stockprices" or "board"
    d_pc,       \* position of the run
    report,     \* the report file: "none", "loading" or "final"
    quote_map,  \* what fetch_with_yfinance_fast returned: ticker -> entry
    board_cache,\* what load_cache of 52weeksboard.py returned
    rows_html,  \* the table rows built, Raises if building them raised
    \* one call of extract_from_batch (stockpricesdaily.py), followed on its own
    eb_pc,      \* "none", "call" or "returned"
    eb_batch,   \* what the batch download holds for the ticker
    eb_ret,     \* what the call returned
    \* the gold price service (gold.py)
    gold_cache, \* _cache: entry name -> [value, ts]
    gold_now,   \* time.time(), in ticks of TickSeconds
    requests,   \* the /price requests: id -> [pc, tries, val, gold, fx, resp]
    \* history of the current batch, kept only where a specification asks
    computed_on,\* [tracked, days]: the days on which a task returned numbers
    key_order   \* [arrival, symbols, values]: the order in which results was
                \* filled, and the key order of the two objects in the file

passVars == <<today, disk, script, force, single, pc, path, fresh, cache,
              tickers, fut, yielded, results, payload, saved>>

rvars == <<rpc, attempt, outcomes, queries, served, ret>>

cvars == <<sf_pc, sf_x, sf_ret>>

dvars == <<view, d_pc, report, quote_map, board_cache, rows_html>>

hvars == <<computed_on, key_order>>

bvars == <<eb_pc, eb_batch, eb_ret>>

gvars == <<gold_cache, gold_now, requests>>

vars == <<passVars, rvars, cvars, dvars, hvars, bvars, gvars>>

\* what the steps of one component leave alone
frameOfTask == <<rvars, cvars, dvars, bvars, gvars>>
frameOfPass == <<rvars, cvars, dvars, hvars, bvars, gvars>>
frameOfResolver == <<passVars, cvars, dvars, hvars, bvars, gvars>>
frameOfCoercion == <<passVars, rvars, dvars, hvars, bvars, gvars>>
frameOfDashboard == <<passVars, rvars, cvars, hvars, bvars, gvars>>
frameOfBatch == <<passVars, rvars, cvars, dvars, hvars, gvars>>
frameOfGold == <<passVars, rvars, cvars, dvars, hvars, bvars>>

-----------------------------------------------------------------------------
(* Bounds of the model *)

NumSymbols == 2     \* how many entries of the registry are modelled
MaxDay == 2         \* the local date can advance up to this day index
MaxLen == 5         \* longest text handed to safe_float, in characters
MaxRows == 3        \* most daily bars the batch download holds for a ticker
NumRequests == 2    \* /price requests the gold service handles
MaxTicks == 3       \* how far the clock of the gold service advances
TickSeconds == 150  \* seconds per tick of that clock

-----------------------------------------------------------------------------
(* Python values *)

None == <<"NoneType">>
PyFloat(n) == <<"float", n>>
PyStr(s) == <<"str", s>>
PyList(s) == <<"list", s>>
PyDict(f) == <<"dict", f>>
EmptyDict == PyDict(<< >>)
NaN == <<"nan">>

\* an exception raised instead of a value
Raises == <<"raises">>

TypeOf(v) == v[1]

isinstance_dict(v) == TypeOf(v) = "dict"

\* truth value of a Python object, as `not x` and `x or y` use it
Truthy(v) ==
    CASE TypeOf(v) = "NoneType" -> FALSE
      [] TypeOf(v) = "float" -> v[2] # 0
      [] TypeOf(v) = "str" -> v[2] # ""
      [] TypeOf(v) = "text" -> Len(v[2]) # 0
      [] TypeOf(v) = "list" -> Len(v[2]) # 0
      [] TypeOf(v) = "dict" -> DOMAIN v[2] # {}
      [] OTHER -> TRUE

\* a or b
py_or(a, b) == IF Truthy(a) THEN a ELSE b

\* d.get(k) of a dict
dict_get(d, k) == IF k \in DOMAIN d[2] THEN d[2][k] ELSE None

\* d[k] = v on a TLA+ function used as the dict's content
dict_set(f, k, v) == [x \in DOMAIN f \cup {k} |-> IF x = k THEN v ELSE f[x]]

Range(s) == {s[i] : i \in DOMAIN s}

-----------------------------------------------------------------------------
(* Configuration *)

RegistryNames == <<"Sensex", "NIFTY", "Paradeep", "DMart">>
RegistryTickers == <<"^BSESN", "^NSEI", "PARADEEP.NS", "DMART.NS">>

\* SYMBOLS, in registry order: <<display name, ticker>>
SYMBOLS == [i \in 1..NumSymbols |-> <<RegistryNames[i], RegistryTickers[i]>>]

\* SYMBOLS as the dict the code passes around (symbol_values)
symbol_values == PyDict([n \in {SYMBOLS[i][1] : i \in 1..NumSymbols} |->
    PyStr(SYMBOLS[CHOOSE i \in 1..NumSymbols : SYMBOLS[i][1] = n][2])])

registry_tickers == [i \in 1..NumSymbols |-> SYMBOLS[i][2]]

MAX_WORKERS == 6

IsoDays == <<"2024-03-10", "2024-03-11", "2024-03-12", "2024-03-13">>
StaleDay == "2024-03-09"

\* date.isoformat()
isoformat(d) == IsoDays[d]

today_kolkata_date_str(d) == isoformat(d)


-----------------------------------------------------------------------------
(* The cache file and its JSON text *)

\* The text json.dump writes for a value: null, number, string, array, object.
RECURSIVE json_dumps(_)
json_dumps(v) ==
    CASE TypeOf(v) = "NoneType" -> <<"null">>
      [] TypeOf(v) = "float" -> <<"number", v[2]>>
      [] TypeOf(v) = "str" -> <<"string", v[2]>>
      [] TypeOf(v) = "list" -> <<"array", [i \in DOMAIN v[2] |-> json_dumps(v[2][i])]>>
      [] TypeOf(v) = "dict" -> <<"object", [k \in DOMAIN v[2] |-> json_dumps(v[2][k])]>>

\* The value json.load builds from a well-formed text.
RECURSIVE json_loads(_)
json_loads(j) ==
    CASE j[1] = "null" -> None
      [] j[1] = "number" -> PyFloat(j[2])
      [] j[1] = "string" -> PyStr(j[2])
      [] j[1] = "array" -> PyList([i \in DOMAIN j[2] |-> json_loads(j[2][i])])
      [] j[1] = "object" -> PyDict([k \in DOMAIN j[2] |-> json_loads(j[2][k])])

\* A text json.load rejects: garbage, an empty file, a truncated document.
InvalidText == <<"invalid">>

File(text) == [kind |-> "file", text |-> text]
MissingFile == [kind |-> "missing", text |-> InvalidText]
UnreadableFile(text) == [kind |-> "unreadable", text |-> text]

\* open(CACHE_FILE, "r") + json.load raise on an unreadable file or a bad text
ReadRaises(d) == d.kind = "unreadable" \/ d.text = InvalidText

\* 52weeks.py load_cache
load_cache(d) ==
    IF d.kind = "missing" THEN EmptyDict
    ELSE IF ReadRaises(d) THEN EmptyDict
    ELSE LET data == json_loads(d.text)
         IN  IF Truthy(data) THEN data ELSE EmptyDict

\* stockpricesdaily.py load_52w_cache
load_52w_cache(d) ==
    IF d.kind = "missing" THEN EmptyDict
    ELSE IF ReadRaises(d) THEN EmptyDict
    ELSE LET data == json_loads(d.text)
         IN  IF isinstance_dict(data) THEN data ELSE EmptyDict

SaveOutcomes == {"ok", "open_failed", "write_failed"}

\* save_cache writing the values mapping alone instead of the envelope
save_cache_values_only(d, envelope, outcome) ==
    CASE outcome = "open_failed" -> d
      [] outcome = "write_failed" -> File(InvalidText)
      [] outcome = "ok" -> File(json_dumps(dict_get(envelope, "values")))

\* save_cache / save_52w_cache: open(CACHE_FILE, "w") truncates the file, then
\* json.dump streams the text into it; any exception is logged, not raised.
save_cache(d, envelope, outcome) ==
    CASE outcome = "open_failed" -> d
      [] outcome = "write_failed" -> File(InvalidText)
      [] outcome = "ok" -> File(json_dumps(envelope))

\* cache_is_fresh taking an empty cache or a missing date for fresh
cache_is_fresh_without_date(c, day) ==
    IF ~Truthy(c) THEN TRUE
    ELSE LET cdate == dict_get(c, "date")
         IN  IF ~Truthy(cdate) THEN TRUE
             ELSE cdate = PyStr(isoformat(day))

\* stockpricesdaily.py cache_is_fresh
cache_is_fresh(c, day) ==
    IF ~Truthy(c) THEN FALSE
    ELSE LET cdate == dict_get(c, "date")
         IN  IF ~Truthy(cdate) THEN FALSE
             ELSE cdate = PyStr(isoformat(day))

\* 52weeks.py main: cache.get("date") == today_kolkata_date_str()
date_is_today(c, day) == dict_get(c, "date") = PyStr(today_kolkata_date_str(day))

-----------------------------------------------------------------------------
(* Quotes *)

AllAbsent52 == PyDict([yearHigh |-> None, yearLow |-> None,
                       close |-> None, previousClose |-> None])
AllAbsentDaily == PyDict([yearHigh |-> None, yearLow |-> None])

Quote52(h, l, c, p) == PyDict([yearHigh |-> h, yearLow |-> l,
                               close |-> c, previousClose |-> p])
QuoteDaily(h, l) == PyDict([yearHigh |-> h, yearLow |-> l])

\* What a resolution task can return for a ticker (fetch_52w_for_symbol,
\* fetch_52w_for): every field a number or None.
WorkerResults(s) ==
    IF s = "52weeks"
    THEN {Quote52(PyFloat(20), PyFloat(3), PyFloat(105), None), AllAbsent52}
    ELSE {QuoteDaily(PyFloat(20), PyFloat(3)), AllAbsentDaily}

AllAbsent(s) == IF s = "52weeks" THEN AllAbsent52 ELSE AllAbsentDaily

-----------------------------------------------------------------------------
(* Initial state *)

FreshEnvelope == PyDict([date |-> PyStr(isoformat(1)), symbols |-> symbol_values,
    values |-> PyDict([t \in Range(registry_tickers) |->
                          Quote52(PyFloat(20), PyFloat(3), PyFloat(105), PyFloat(100))])])

\* an envelope in the older format (no symbols key), written on an earlier day
StaleEnvelope == PyDict([date |-> PyStr(StaleDay),
    values |-> PyDict([t \in Range(registry_tickers) |->
                          QuoteDaily(PyFloat(20), PyFloat(3))])])

\* What the cache file can hold when a script starts.
InitialDisks ==
    { MissingFile,
      UnreadableFile(json_dumps(FreshEnvelope)),
      File(InvalidText),
      File(json_dumps(None)),
      File(json_dumps(PyList(<<PyFloat(1)>>))),
      File(json_dumps(PyDict([values |-> EmptyDict]))),
      File(json_dumps(StaleEnvelope)),
      File(json_dumps(FreshEnvelope)) }

SingleChoices == {None, PyStr(registry_tickers[1])}

NoFutures == << >>

InitPass(d) ==
    /\ today = 1
    /\ disk = d
    /\ script = "52weeks"
    /\ force = FALSE
    /\ single = None
    /\ pc = "IDLE"
    /\ path = "none"
    /\ fresh = FALSE
    /\ cache = EmptyDict
    /\ tickers = << >>
    /\ fut = NoFutures
    /\ yielded = {}
    /\ results = << >>
    /\ payload = EmptyDict
    /\ saved = "none"

NoUpstream == [fi |-> None, info |-> None, h1 |-> None, h1adj |-> None, h2 |-> None]

\* fetch_52w_for_symbol has been called and enters its loop
InitResolver ==
    /\ rpc = "attempt"
    /\ attempt = 1
    /\ outcomes = << >>
    /\ queries = << >>
    /\ served = NoUpstream
    /\ ret = None

\* no call of safe_float is followed
InitCoercion == sf_pc = "none" /\ sf_x = None /\ sf_ret = None

\* gold.py line 39, and no request yet
NoRequest == [pc |-> "idle", entry |-> "gold", tries |-> 0, val |-> None,
              gold |-> None, fx |-> None, resp |-> None]

EmptyEntry == [value |-> None, ts |-> None]

InitGold ==
    /\ gold_cache = [gold |-> EmptyEntry, fx |-> EmptyEntry]
    /\ gold_now = 0
    /\ requests = [r \in 1..NumRequests |-> NoRequest]

\* no call of extract_from_batch is followed
InitBatch == eb_pc = "none" /\ eb_batch = None /\ eb_ret = None

\* the history of the batch is not kept
InitUntracked ==
    /\ computed_on = [tracked |-> FALSE, days |-> {}]
    /\ key_order = [arrival |-> << >>, symbols |-> << >>, values |-> << >>]

\* the history of the batch is kept
InitTracked ==
    /\ computed_on = [tracked |-> TRUE, days |-> {}]
    /\ key_order = [arrival |-> << >>, symbols |-> << >>, values |-> << >>]

\* no dashboard script has been started
InitDashboard ==
    /\ view = "none"
    /\ d_pc = "start"
    /\ report = "none"
    /\ quote_map = << >>
    /\ board_cache = None
    /\ rows_html = None

Init ==
    /\ \E d \in InitialDisks : InitPass(d)
    /\ InitResolver
    /\ InitCoercion
    /\ InitDashboard
    /\ InitUntracked
    /\ InitBatch
    /\ InitGold

-----------------------------------------------------------------------------
(* The pass: main (52weeks.py) and the 52-week part of                     *)
(* fetch_with_yfinance_fast (stockpricesdaily.py)                          *)

\* the local date changes while the scripts run
Midnight ==
    /\ today < MaxDay
    /\ today' = today + 1
    /\ UNCHANGED <<disk, script, force, single, pc, path, fresh, cache,
                   tickers, fut, yielded, results, payload, saved>>
    /\ UNCHANGED frameOfPass

\* A script is started: main(force_refresh, single_ticker) of 52weeks.py, or
\* the fetch process of stockpricesdaily.py; its first step loads the cache.
StartPass(s, f, sg) ==
    /\ pc \in {"IDLE", "DONE", "EXIT1"}
    /\ s = "daily" => (f = FALSE /\ sg = None)
    /\ script' = s
    /\ force' = f
    /\ single' = sg
    /\ cache' = IF s = "52weeks" THEN load_cache(disk) ELSE load_52w_cache(disk)
    /\ pc' = "CHECK_CACHE"
    /\ path' = "none"
    /\ fresh' = FALSE
    /\ tickers' = << >>
    /\ fut' = NoFutures
    /\ yielded' = {}
    /\ results' = << >>
    /\ payload' = EmptyDict
    /\ saved' = "none"
    /\ UNCHANGED <<today, disk>>
    /\ UNCHANGED frameOfPass

\* 52weeks.py main: `not force_refresh and cache.get("date") == today and
\* not single_ticker`, evaluated left to right; cache.get raises
\* AttributeError when the loaded value is not a dict.
main_check_raises(c, f) == ~f /\ ~isinstance_dict(c)

\* the date check of main without the force flag
main_date_check_ignores_force(c, day, f) ==
    isinstance_dict(c) /\ date_is_today(c, day)

main_date_check(c, day, f) == ~f /\ date_is_today(c, day)

\* main refreshing whatever the date check says
main_never_skips(c, day, f, sg) == FALSE

main_skips(c, day, f, sg) == main_date_check(c, day, f) /\ ~Truthy(sg)

CheckCache ==
    /\ pc = "CHECK_CACHE"
    /\ IF script = "52weeks"
       THEN IF main_check_raises(cache, force)
            THEN \* except Exception in main: log, sys.exit(1)
                 /\ pc' = "EXIT1"
                 /\ UNCHANGED <<path, fresh>>
            ELSE /\ fresh' = main_date_check(cache, today, force)
                 /\ IF main_skips(cache, today, force, single)
                    THEN pc' = "DONE" /\ path' = "fresh"
                    ELSE pc' = "DISPATCH" /\ path' = "stale"
       ELSE /\ fresh' = cache_is_fresh(cache, today)
            /\ IF cache_is_fresh(cache, today)
               THEN pc' = "DONE" /\ path' = "fresh"
               ELSE pc' = "DISPATCH" /\ path' = "stale"
    /\ UNCHANGED <<today, disk, script, force, single, cache, tickers,
                   fut, yielded, results, payload, saved>>
    /\ UNCHANGED frameOfPass

\* refresh_52w_cache: tickers = list(symbol_values.values()) if debug_single
\* is None else [debug_single]; stockpricesdaily.py: symbols_list
requested_tickers(s, sg) ==
    IF s = "52weeks" /\ sg # None THEN <<sg[2]>> ELSE registry_tickers

\* ex.submit(...) for every ticker
Dispatch ==
    /\ pc = "DISPATCH"
    /\ tickers' = requested_tickers(script, single)
    /\ fut' = [t \in Range(requested_tickers(script, single)) |->
                  [st |-> "pending", vals |-> None, overran |-> FALSE]]
    /\ yielded' = {}
    /\ results' = << >>
    /\ pc' = "COLLECT"
    /\ computed_on' = [computed_on EXCEPT !.days = {}]
    /\ key_order' = [key_order EXCEPT !.arrival = << >>]
    /\ UNCHANGED <<today, disk, script, force, single, path, fresh,
                   cache, payload, saved>>
    /\ UNCHANGED frameOfTask

max_workers == IF MAX_WORKERS < Len(tickers) THEN MAX_WORKERS ELSE Len(tickers)

Busy == {t \in DOMAIN fut : fut[t].st \in {"running", "hung"}}

\* a pool thread picks the task up
WorkerStart(t) ==
    /\ pc = "COLLECT"
    /\ fut[t].st = "pending"
    /\ Cardinality(Busy) < max_workers
    /\ fut' = [fut EXCEPT ![t].st = "running"]
    /\ UNCHANGED <<today, disk, script, force, single, pc, path, fresh,
                   cache, tickers, yielded, results, payload, saved>>
    /\ UNCHANGED frameOfPass

\* the task returns (sym, vals)
WorkerReturns(t, q) ==
    /\ pc = "COLLECT"
    /\ fut[t].st = "running"
    /\ q \in WorkerResults(script)
    /\ fut' = [fut EXCEPT ![t].st = "returned", ![t].vals = q]
    /\ computed_on' = IF computed_on.tracked /\ q # AllAbsent(script)
                      THEN [computed_on EXCEPT !.days = @ \cup {today}]
                      ELSE computed_on
    /\ UNCHANGED key_order
    /\ UNCHANGED <<today, disk, script, force, single, pc, path, fresh,
                   cache, tickers, yielded, results, payload, saved>>
    /\ UNCHANGED frameOfTask

\* the task ends with an exception, which the future stores
WorkerRaises(t) ==
    /\ pc = "COLLECT"
    /\ fut[t].st = "running"
    /\ fut' = [fut EXCEPT ![t].st = "raised"]
    /\ UNCHANGED <<today, disk, script, force, single, pc, path, fresh,
                   cache, tickers, yielded, results, payload, saved>>
    /\ UNCHANGED frameOfPass

\* an upstream call of the task never returns
UpstreamHangs(t) ==
    /\ pc = "COLLECT"
    /\ fut[t].st = "running"
    /\ fut' = [fut EXCEPT ![t].st = "hung"]
    /\ UNCHANGED <<today, disk, script, force, single, pc, path, fresh,
                   cache, tickers, yielded, results, payload, saved>>
    /\ UNCHANGED frameOfPass

\* PER_TICKER_TIMEOUT seconds pass with the task still running
Overrun(t) ==
    /\ pc = "COLLECT"
    /\ fut[t].st \in {"running", "hung"}
    /\ ~fut[t].overran
    /\ fut' = [fut EXCEPT ![t].overran = TRUE]
    /\ UNCHANGED <<today, disk, script, force, single, pc, path, fresh,
                   cache, tickers, yielded, results, payload, saved>>
    /\ UNCHANGED frameOfPass

\* as_completed(futures) yields a future only once it has finished
Completed == {t \in DOMAIN fut : fut[t].st \in {"returned", "raised"}}

\* collect_result with the except branch recording nothing
collect_result_drops_failed(res, tk, f, s) ==
    IF f.st = "returned" THEN dict_set(res, tk, f.vals) ELSE res

\* collect_result with the except branch storing the exception itself
collect_result_stores_exception(res, tk, f, s) ==
    IF f.st = "returned" THEN dict_set(res, tk, f.vals) ELSE dict_set(res, tk, Raises)

\* The body of the collection loop for the future of ticker tk:
\*   try: sym, vals = fut.result(timeout=PER_TICKER_TIMEOUT); results[sym] = vals
\*   except Exception: results[tk] = all fields None
\* result() of a finished future returns or raises at once.
collect_result(res, tk, f, s) ==
    IF f.st = "returned"
    THEN dict_set(res, tk, f.vals)
    ELSE dict_set(res, tk, AllAbsent(s))

\* results[key] = vals: a new key goes last, a known key keeps its place
insertion_order(keys, k) == IF k \in Range(keys) THEN keys ELSE Append(keys, k)

Collect(t) ==
    /\ pc = "COLLECT"
    /\ t \in Completed \ yielded
    /\ yielded' = yielded \cup {t}
    /\ results' = collect_result(results, t, fut[t], script)
    /\ key_order' = IF computed_on.tracked
                    THEN [key_order EXCEPT !.arrival = insertion_order(@, t)]
                    ELSE key_order
    /\ UNCHANGED computed_on
    /\ UNCHANGED <<today, disk, script, force, single, pc, path, fresh,
                   cache, tickers, fut, payload, saved>>
    /\ UNCHANGED frameOfTask

\* an envelope that keeps the entries of the loaded cache the pass did not
\* replace
build_payload_merged(s, day, res) ==
    LET old == IF isinstance_dict(cache) /\ isinstance_dict(dict_get(cache, "values"))
               THEN dict_get(cache, "values")[2] ELSE << >>
        merged == [t \in DOMAIN old \cup DOMAIN res |->
                      IF t \in DOMAIN res THEN res[t] ELSE old[t]]
    IN  IF s = "52weeks"
        THEN PyDict([date |-> PyStr(today_kolkata_date_str(day)),
                     symbols |-> symbol_values, values |-> PyDict(merged)])
        ELSE PyDict([date |-> PyStr(isoformat(day)), values |-> PyDict(merged)])

\* the envelope built after the loop
build_payload(s, day, res) ==
    IF s = "52weeks"
    THEN PyDict([date |-> PyStr(today_kolkata_date_str(day)),
                 symbols |-> symbol_values, values |-> PyDict(res)])
    ELSE PyDict([date |-> PyStr(isoformat(day)), values |-> PyDict(res)])

\* json.dump writes the keys of a dict in insertion order: "symbols" is the
\* SYMBOLS literal (52weeks.py only), "values" is results
written_order(s, arrival) ==
    [arrival |-> arrival,
     symbols |-> IF s = "52weeks" THEN [i \in 1..NumSymbols |-> SYMBOLS[i][1]] ELSE << >>,
     values |-> arrival]

\* The loop ends when every future has been yielded; the executor is shut
\* down, the payload is built with the date of that moment and saved.
Persist(outcome) ==
    /\ pc = "COLLECT"
    /\ yielded = DOMAIN fut
    /\ outcome \in SaveOutcomes
    /\ payload' = build_payload(script, today, results)
    /\ disk' = save_cache(disk, build_payload(script, today, results), outcome)
    /\ saved' = outcome
    /\ pc' = "DONE"
    /\ key_order' = IF computed_on.tracked /\ outcome = "ok"
                    THEN written_order(script, key_order.arrival)
                    ELSE key_order
    /\ UNCHANGED computed_on
    /\ UNCHANGED <<today, script, force, single, path, fresh, cache,
                   tickers, fut, yielded, results>>
    /\ UNCHANGED frameOfTask

\* the steps of a pass that is under way
PassStep ==
    \/ CheckCache
    \/ Dispatch
    \/ \E t \in DOMAIN fut : WorkerStart(t)
    \/ \E t \in DOMAIN fut : \E q \in WorkerResults(script) : WorkerReturns(t, q)
    \/ \E t \in DOMAIN fut : WorkerRaises(t)
    \/ \E t \in DOMAIN fut : Collect(t)
    \/ \E o \in SaveOutcomes : Persist(o)

Next ==
    \/ Midnight
    \/ \E s \in {"52weeks", "daily"}, f \in BOOLEAN, sg \in SingleChoices :
          StartPass(s, f, sg)
    \/ CheckCache
    \/ Dispatch
    \/ \E t \in DOMAIN fut : WorkerStart(t)
    \/ \E t \in DOMAIN fut : \E q \in WorkerResults(script) : WorkerReturns(t, q)
    \/ \E t \in DOMAIN fut : WorkerRaises(t)
    \/ \E t \in DOMAIN fut : UpstreamHangs(t)
    \/ \E t \in DOMAIN fut : Overrun(t)
    \/ \E t \in DOMAIN fut : Collect(t)
    \/ \E o \in SaveOutcomes : Persist(o)

Spec == Init /\ [][Next]_vars

-----------------------------------------------------------------------------
(* fetch_52w_for_symbol (52weeks.py): one ticker, up to max_retries attempts *)

\* range(1, max_retries + 1) taken one too far
max_retries_one_more == 3 + 1

max_retries == 3

FastInfoObject == <<"FastInfo">>

\* a history DataFrame: its rows (oldest first) and its columns
Frame(rows, cols) == <<"frame", rows, cols>>
Row(h, l, c) == [High |-> h, Low |-> l, Close |-> c]

\* getattr(hist, "empty", True)
frame_empty(h) == Len(h[2]) = 0

Column(h, c) == [i \in DOMAIN h[2] |-> h[2][i][c]]

NotNaN(x) == x # NaN

Numbers(col) == {col[i][2] : i \in {j \in DOMAIN col : NotNaN(col[j])}}

\* the first value of the column instead of its maximum
column_first(col) == col[1]

\* float(hist["High"].max()): NaN values are skipped, NaN when none is left
column_max(col) ==
    IF Numbers(col) = {} THEN NaN
    ELSE PyFloat(CHOOSE m \in Numbers(col) : \A x \in Numbers(col) : x <= m)

\* float(hist["Low"].min())
column_min(col) ==
    IF Numbers(col) = {} THEN NaN
    ELSE PyFloat(CHOOSE m \in Numbers(col) : \A x \in Numbers(col) : m <= x)

\* hist["Close"].dropna()
dropna(col) == SelectSeq(col, NotNaN)

\* a str whose characters matter: a sequence of one-character strings
PyText(chars) == <<"text", chars>>

\* a float with decimals: m / 10^e, e > 0 and m not a multiple of 10
PyDecimal(m, e) == IF e = 0 THEN PyFloat(m) ELSE <<"float", m, e>>

DigitValue ==
    ("0" :> 0) @@ ("1" :> 1) @@ ("2" :> 2) @@ ("3" :> 3) @@ ("4" :> 4) @@
    ("5" :> 5) @@ ("6" :> 6) @@ ("7" :> 7) @@ ("8" :> 8) @@ ("9" :> 9)

Digits == DOMAIN DigitValue

DigitChar(d) == CHOOSE c \in Digits : DigitValue[c] = d

IsDigit(c) == c \in Digits

AllDigits(ds) == \A i \in DOMAIN ds : IsDigit(ds[i])

RECURSIVE digits_value(_)
digits_value(ds) ==
    IF ds = << >> THEN 0
    ELSE 10 * digits_value(SubSeq(ds, 1, Len(ds) - 1)) + DigitValue[ds[Len(ds)]]

RECURSIVE digits_of(_)
digits_of(n) ==
    IF n < 10 THEN <<DigitChar(n)>>
    ELSE digits_of(n \div 10) \o <<DigitChar(n % 10)>>

RECURSIVE zero_fill(_, _)
zero_fill(ds, width) == IF Len(ds) >= width THEN ds ELSE zero_fill(<<"0">> \o ds, width)

\* t without the characters c at its end
RECURSIVE drop_trailing(_, _)
drop_trailing(t, c) ==
    IF t # << >> /\ t[Len(t)] = c
    THEN drop_trailing(SubSeq(t, 1, Len(t) - 1), c) ELSE t

\* t without the characters c at its start
RECURSIVE drop_leading(_, _)
drop_leading(t, c) ==
    IF t # << >> /\ Head(t) = c THEN drop_leading(Tail(t), c) ELSE t

IsComma(c) == c = ","

NotComma(c) == ~IsComma(c)

\* str(x): the text of a value; a str of the model that is not a PyText
\* (a ticker, a date) is one token that holds no digit of its own
str(x) ==
    CASE TypeOf(x) = "text" -> x[2]
      [] TypeOf(x) = "str" -> <<x[2]>>
      [] TypeOf(x) = "nan" -> <<"n", "a", "n">>
      [] TypeOf(x) = "float" ->
            LET m == x[2]
                e == IF Len(x) = 3 THEN x[3] ELSE 0
                ds == zero_fill(digits_of(IF m < 0 THEN -m ELSE m), e + 1)
                int == SubSeq(ds, 1, Len(ds) - e)
                frac == IF e = 0 THEN <<"0">> ELSE SubSeq(ds, Len(ds) - e + 1, Len(ds))
            IN  (IF m < 0 THEN <<"-">> ELSE << >>) \o int \o <<".">> \o frac
      [] TypeOf(x) = "list" -> <<"[", "]">>
      [] TypeOf(x) = "dict" -> <<"{", "}">>
      [] OTHER -> <<"<", ">">>

\* s.replace(",", "")
replace_commas(t) == SelectSeq(t, NotComma)

\* s.strip()
strip(t) == drop_trailing(drop_leading(t, " "), " ")

\* float(s) of a text: Raises stands for the ValueError
float_of_text(t) ==
    LET signed == t # << >> /\ Head(t) \in {"-", "+"}
        body == IF signed THEN Tail(t) ELSE t
        dots == {i \in DOMAIN body : body[i] = "."}
        dot == IF dots = {} THEN Len(body) + 1 ELSE CHOOSE i \in dots : TRUE
        int == SubSeq(body, 1, dot - 1)
        frac == SubSeq(body, dot + 1, Len(body))
        sig == drop_trailing(frac, "0")
        m == digits_value(int \o sig)
    IN  IF body = <<"n", "a", "n">> THEN NaN
        ELSE IF /\ Cardinality(dots) <= 1
                /\ AllDigits(int) /\ AllDigits(frac)
                /\ Len(int) + Len(frac) > 0
             THEN PyDecimal(IF Head(t) = "-" THEN -m ELSE m, Len(sig))
             ELSE Raises

\* float(str(x).replace(",", "").strip())
parse_float(x) == float_of_text(strip(replace_commas(str(x))))

\* safe_float without its try block
safe_float_uncaught(x) ==
    IF x = None THEN None ELSE parse_float(x)

\* 52weeks.py safe_float
safe_float(x) ==
    IF x = None THEN None
    ELSE IF parse_float(x) = Raises THEN None ELSE parse_float(x)

\* lines 127-133: the fast_info tier, taken only when fast_info is a dict
snapshot_tier(fi) ==
    IF Truthy(fi) /\ isinstance_dict(fi)
    THEN [high |-> py_or(py_or(dict_get(fi, "yearHigh"), dict_get(fi, "fiftyTwoWeekHigh")),
                         dict_get(fi, "52WeekHigh")),
          low |-> py_or(py_or(dict_get(fi, "yearLow"), dict_get(fi, "fiftyTwoWeekLow")),
                        dict_get(fi, "52WeekLow")),
          close |-> py_or(py_or(py_or(None, dict_get(fi, "lastPrice")),
                                dict_get(fi, "regularMarketPrice")),
                          dict_get(fi, "last_close")),
          prev |-> py_or(py_or(None, dict_get(fi, "previousClose")),
                         dict_get(fi, "regularMarketPreviousClose"))]
    ELSE [high |-> None, low |-> None, close |-> None, prev |-> None]

\* lines 135-143: the info tier
metadata_tier(cur, info) ==
    IF ~Truthy(info) THEN cur
    ELSE [high |-> IF cur.high = None
                   THEN py_or(py_or(dict_get(info, "fiftyTwoWeekHigh"),
                                    dict_get(info, "52WeekHigh")),
                              dict_get(info, "yearHigh"))
                   ELSE cur.high,
          low |-> IF cur.low = None
                  THEN py_or(py_or(dict_get(info, "fiftyTwoWeekLow"),
                                   dict_get(info, "52WeekLow")),
                             dict_get(info, "yearLow"))
                  ELSE cur.low,
          close |-> py_or(py_or(py_or(py_or(cur.close,
                                            dict_get(info, "regularMarketPrice")),
                                      dict_get(info, "currentPrice")),
                                dict_get(info, "close")),
                          dict_get(info, "lastClose")),
          prev |-> py_or(py_or(cur.prev, dict_get(info, "previousClose")),
                         dict_get(info, "regularMarketPreviousClose"))]

\* line 147
need_hist(cur) ==
    cur.high = None \/ cur.low = None \/ cur.close = None \/ cur.prev = None

\* lines 148-157: the 1-year query and its auto-adjusted fallback
history_1y(cur, up) ==
    IF ~need_hist(cur) THEN None
    ELSE IF up.h1 # Raises THEN up.h1
    ELSE IF up.h1adj # Raises THEN up.h1adj
    ELSE None

queries_1y(cur, up) ==
    IF ~need_hist(cur) THEN << >>
    ELSE IF up.h1 # Raises THEN <<"1y">>
    ELSE <<"1y", "1y-adjusted">>

\* lines 160-184 (and 190-210 for the 2-year frame): fill what is still missing
fill_from_history(cur, h) ==
    LET cols == h[3]
        closes == dropna(Column(h, "Close"))
        n == Len(closes)
    IN  [high |-> IF {"High", "Low"} \subseteq cols /\ cur.high = None
                  THEN column_max(Column(h, "High")) ELSE cur.high,
         low |-> IF {"High", "Low"} \subseteq cols /\ cur.low = None
                 THEN column_min(Column(h, "Low")) ELSE cur.low,
         close |-> IF "Close" \in cols /\ n > 0
                   THEN py_or(cur.close, closes[n]) ELSE cur.close,
         prev |-> IF "Close" \in cols /\ n >= 2
                  THEN py_or(cur.prev, closes[n - 1]) ELSE cur.prev]

\* line 159: hist is not None and not empty
usable_frame(h) == h # None /\ ~frame_empty(h)

\* lines 159-214: the 1-year frame if it has rows, else the 2-year query
history_tier(cur, up) ==
    LET hist == history_1y(cur, up)
    IN  IF usable_frame(hist) THEN fill_from_history(cur, hist)
        ELSE IF up.h2 # Raises /\ usable_frame(up.h2)
             THEN fill_from_history(cur, up.h2)
             ELSE cur

history_queries(cur, up) ==
    LET hist == history_1y(cur, up)
    IN  IF usable_frame(hist) THEN queries_1y(cur, up)
        ELSE queries_1y(cur, up) \o <<"2y">>

\* an accessor raising outside the inner try blocks ends the attempt
attempt_raises(up) == up.fi = Raises \/ up.info = Raises

\* lines 118-222: the values of an attempt that completes
attempt_vals(up) ==
    LET cur == metadata_tier(snapshot_tier(py_or(up.fi, EmptyDict)),
                             py_or(up.info, EmptyDict))
        fin == history_tier(cur, up)
    IN  Quote52(safe_float(fin.high), safe_float(fin.low),
                safe_float(fin.close), safe_float(fin.prev))

attempt_queries(up) ==
    history_queries(metadata_tier(snapshot_tier(py_or(up.fi, EmptyDict)),
                                  py_or(up.info, EmptyDict)), up)

-----------------------------------------------------------------------------
(* What the upstream can serve in one attempt *)

SnapshotDict == PyDict([yearHigh |-> PyFloat(20), yearLow |-> PyFloat(3),
                        lastPrice |-> PyFloat(105), previousClose |-> PyFloat(100)])
SnapshotAliasDict == PyDict([fiftyTwoWeekHigh |-> PyFloat(22), fiftyTwoWeekLow |-> PyFloat(2)])
InfoDict == PyDict([fiftyTwoWeekHigh |-> PyFloat(21), fiftyTwoWeekLow |-> PyFloat(4),
                    currentPrice |-> PyFloat(106), previousClose |-> PyFloat(101)])
InfoTextDict == PyDict([fiftyTwoWeekHigh |-> PyText(<<"2", "0">>), regularMarketPrice |-> PyFloat(0)])

AllColumns == {"High", "Low", "Close"}
EmptyFrame == Frame(<< >>, AllColumns)
YearFrame == Frame(<<Row(PyFloat(10), PyFloat(5), PyFloat(98)),
                     Row(PyFloat(15), PyFloat(6), NaN),
                     Row(PyFloat(9), PyFloat(4), PyFloat(100)),
                     Row(PyFloat(20), PyFloat(3), PyFloat(105))>>, AllColumns)
OneRowFrame == Frame(<<Row(PyFloat(12), PyFloat(7), PyFloat(11))>>, AllColumns)
\* rows without a value: the days are listed, every price is NaN
NaNFrame == Frame(<<Row(NaN, NaN, NaN), Row(NaN, NaN, NaN)>>, AllColumns)
TwoYearFrame == Frame(<<Row(PyFloat(30), PyFloat(1), PyFloat(25)),
                        Row(PyFloat(18), PyFloat(8), PyFloat(16))>>, AllColumns)

Upstreams ==
    [fi : {Raises, None, FastInfoObject, SnapshotDict, SnapshotAliasDict},
     info : {Raises, None, InfoDict, InfoTextDict},
     h1 : {Raises, EmptyFrame, NaNFrame, YearFrame, OneRowFrame},
     h1adj : {Raises, YearFrame},
     h2 : {Raises, None, EmptyFrame, TwoYearFrame}]

-----------------------------------------------------------------------------
(* The retry loop of fetch_52w_for_symbol *)

\* `import yfinance` fails: all fields None are returned before any attempt
ImportFails ==
    /\ rpc = "attempt"
    /\ outcomes = << >>
    /\ rpc' = "returned"
    /\ ret' = AllAbsent52
    /\ UNCHANGED <<attempt, outcomes, queries, served>>
    /\ UNCHANGED frameOfResolver

\* the try body runs to its return statement
AttemptCompletes(up) ==
    /\ rpc = "attempt"
    /\ ~attempt_raises(up)
    /\ served' = up
    /\ outcomes' = Append(outcomes, "completed")
    /\ queries' = queries \o attempt_queries(up)
    /\ ret' = attempt_vals(up)
    /\ rpc' = "returned"
    /\ UNCHANGED attempt
    /\ UNCHANGED frameOfResolver

\* except Exception: the final attempt returns all fields None, an earlier
\* one sleeps
AttemptRaises(up) ==
    /\ rpc = "attempt"
    /\ attempt_raises(up)
    /\ served' = up
    /\ outcomes' = Append(outcomes, "raised")
    /\ IF attempt = max_retries
       THEN rpc' = "returned" /\ ret' = AllAbsent52
       ELSE rpc' = "sleep" /\ ret' = ret
    /\ UNCHANGED <<attempt, queries>>
    /\ UNCHANGED frameOfResolver

\* time.sleep(1.5) ends and the loop takes the next attempt
Backoff ==
    /\ rpc = "sleep"
    /\ attempt' = attempt + 1
    /\ rpc' = "attempt"
    /\ UNCHANGED <<outcomes, queries, served, ret>>
    /\ UNCHANGED frameOfResolver

NextResolver ==
    \/ ImportFails
    \/ \E up \in Upstreams : AttemptCompletes(up)
    \/ \E up \in Upstreams : AttemptRaises(up)
    \/ Backoff

InitResolverSpec ==
    InitPass(MissingFile) /\ InitResolver /\ InitCoercion /\ InitDashboard
    /\ InitUntracked
    /\ InitBatch
    /\ InitGold

SpecResolver == InitResolverSpec /\ [][NextResolver]_vars

-----------------------------------------------------------------------------
(* The resolver inside the dispatcher: the followed run of                 *)
(* fetch_52w_for_symbol is the task of the first ticker of a full-registry *)
(* refresh of 52weeks.py; the tasks of the other tickers end as a future   *)
(* can end, once the followed run has returned.                            *)

followed_ticker == registry_tickers[1]

\* refresh_52w_cache has submitted every task and waits in as_completed
InitCollecting ==
    /\ today = 1
    /\ disk = MissingFile
    /\ script = "52weeks"
    /\ force = FALSE
    /\ single = None
    /\ pc = "COLLECT"
    /\ path = "stale"
    /\ fresh = FALSE
    /\ cache = EmptyDict
    /\ tickers = registry_tickers
    /\ fut = [t \in Range(registry_tickers) |->
                 [st |-> "running", vals |-> None, overran |-> FALSE]]
    /\ yielded = {}
    /\ results = << >>
    /\ payload = EmptyDict
    /\ saved = "none"

\* the return statement of the followed run sets the result of its future
task_returns ==
    /\ rpc = "returned"
    /\ fut[followed_ticker].st = "running"
    /\ fut' = [fut EXCEPT ![followed_ticker].st = "returned",
                          ![followed_ticker].vals = ret]
    /\ UNCHANGED <<today, disk, script, force, single, pc, path, fresh,
                   cache, tickers, yielded, results, payload, saved>>
    /\ UNCHANGED frameOfPass

NextBoundary ==
    \/ ImportFails
    \/ \E up \in Upstreams : AttemptCompletes(up)
    \/ \E up \in Upstreams : AttemptRaises(up)
    \/ Backoff
    \/ task_returns
    \/ /\ rpc = "returned"
       /\ \E t \in DOMAIN fut \ {followed_ticker} :
             \E q \in WorkerResults(script) : WorkerReturns(t, q)
    \/ /\ rpc = "returned"
       /\ \E t \in DOMAIN fut \ {followed_ticker} : WorkerRaises(t)
    \/ \E t \in DOMAIN fut : Collect(t)

InitBoundarySpec ==
    InitCollecting /\ InitResolver /\ InitCoercion /\ InitDashboard
    /\ InitUntracked
    /\ InitBatch
    /\ InitGold

SpecBoundary == InitBoundarySpec /\ [][NextBoundary]_vars

-----------------------------------------------------------------------------
(* One pass across midnight: a single run of either script from a cache    *)
(* file of an earlier day, with the days on which values were computed     *)
(* kept as history                                                         *)

NextMidnight ==
    \/ Midnight
    \/ /\ pc = "IDLE"
       /\ \E s \in {"52weeks", "daily"}, f \in BOOLEAN : StartPass(s, f, None)
    \/ CheckCache
    \/ Dispatch
    \/ \E t \in DOMAIN fut : WorkerStart(t)
    \/ \E t \in DOMAIN fut : \E q \in WorkerResults(script) : WorkerReturns(t, q)
    \/ \E t \in DOMAIN fut : WorkerRaises(t)
    \/ \E t \in DOMAIN fut : Collect(t)
    \/ \E o \in SaveOutcomes : Persist(o)

InitMidnightSpec ==
    /\ InitPass(File(json_dumps(StaleEnvelope)))
    /\ InitResolver
    /\ InitCoercion
    /\ InitDashboard
    /\ InitTracked
    /\ InitBatch
    /\ InitGold

SpecMidnight == InitMidnightSpec /\ [][NextMidnight]_vars

-----------------------------------------------------------------------------
(* Calls of safe_float (52weeks.py) *)

\* the characters the texts are made of
TextChars == {"1", "0", ",", ".", " ", "a"}

Texts == UNION {[1..n -> TextChars] : n \in 0..MaxLen}

\* the texts of the specification's examples
SampleTexts == {<<"1", ",", "2", "3", "4", ".", "5", "0">>, <<"a", "b", "c">>}

\* what safe_float can be handed: None, the value of a missing key, numbers,
\* NaN, texts, and objects that are neither a number nor a text
CoercionInputs ==
    {None, dict_get(InfoDict, "yearHigh"), dict_get(InfoDict, "previousClose"),
     PyFloat(0), PyFloat(20), PyFloat(-3), PyDecimal(12345, 1), PyDecimal(-5, 2),
     NaN, PyList(<< >>), EmptyDict, FastInfoObject, PyStr("^NSEI")}
    \cup {PyText(t) : t \in Texts \cup SampleTexts}

safe_float_called(x) ==
    /\ sf_pc = "none"
    /\ sf_pc' = "call"
    /\ sf_x' = x
    /\ sf_ret' = None
    /\ UNCHANGED frameOfCoercion

safe_float_returns ==
    /\ sf_pc = "call"
    /\ sf_pc' = "returned"
    /\ sf_ret' = safe_float(sf_x)
    /\ UNCHANGED sf_x
    /\ UNCHANGED frameOfCoercion

NextCoercion ==
    \/ \E x \in CoercionInputs : safe_float_called(x)
    \/ safe_float_returns

InitCoercionSpec ==
    InitPass(MissingFile) /\ InitResolver /\ InitCoercion /\ InitDashboard
    /\ InitUntracked
    /\ InitBatch
    /\ InitGold

SpecCoercion == InitCoercionSpec /\ [][NextCoercion]_vars

-----------------------------------------------------------------------------
(* Row formatting of the dashboards *)

\* the cells of a rendered row: a placeholder text, a formatted number, or
\* an escaped text
Placeholder(p) == <<"placeholder", p>>
Formatted(v) == <<"formatted", v>>
Escaped(s) == <<"escaped", s>>

\* the dash the pages show for a missing value (an em dash in the source)
Dash == "-"

\* a <tr> of cells
Tr(cells) == <<"tr", cells>>

\* html.escape(s): s.replace(...) is an AttributeError unless s is a str
html_escape(s) == IF TypeOf(s) = "str" THEN Escaped(s[2]) ELSE Raises

\* math.isnan
isnan(x) == x = NaN

\* format_cell_value: "N/A" for None, else the formatted number or str(val)
format_cell_value(val) == IF val = None THEN Placeholder("N/A") ELSE Formatted(val)

\* f"{change:+.2f}" if change is not None and not math.isnan(change) else Dash
signed_cell(x) == IF x # None /\ ~isnan(x) THEN Formatted(x) ELSE Placeholder(Dash)

\* stockpricesdaily.py make_row
make_row_daily(display_name, e) ==
    LET price == IF Truthy(e) THEN dict_get(e, "price") ELSE None
        change == IF Truthy(e) THEN dict_get(e, "change") ELSE None
        change_pct == IF Truthy(e) THEN dict_get(e, "change_pct") ELSE None
        time_str == IF Truthy(e) THEN dict_get(e, "time") ELSE PyStr("")
        yr_high == IF Truthy(e) THEN dict_get(e, "yearHigh") ELSE None
        yr_low == IF Truthy(e) THEN dict_get(e, "yearLow") ELSE None
    IN  IF html_escape(display_name) = Raises \/ html_escape(time_str) = Raises
        THEN Raises
        ELSE Tr([name |-> html_escape(display_name),
                 price |-> IF price # None THEN format_cell_value(price)
                           ELSE Placeholder("N/A"),
                 change |-> signed_cell(change),
                 pct |-> signed_cell(change_pct),
                 time |-> html_escape(time_str),
                 low |-> IF yr_low # None THEN format_cell_value(yr_low)
                         ELSE Placeholder(Dash),
                 high |-> IF yr_high # None THEN format_cell_value(yr_high)
                          ELSE Placeholder(Dash)])

\* stockprices.py make_row
make_row_stockprices(display_name, e) ==
    IF ~Truthy(e) \/ dict_get(e, "price") = None
    THEN IF html_escape(display_name) = Raises THEN Raises
         ELSE Tr([name |-> html_escape(display_name),
                  price |-> Placeholder("N/A"),
                  change |-> Placeholder(Dash),
                  pct |-> Placeholder(Dash),
                  time |-> Placeholder(Dash)])
    ELSE LET time_str == py_or(dict_get(e, "time"), PyStr(""))
         IN  IF html_escape(display_name) = Raises \/ html_escape(time_str) = Raises
             THEN Raises
             ELSE Tr([name |-> html_escape(display_name),
                      price |-> format_cell_value(dict_get(e, "price")),
                      change |-> signed_cell(dict_get(e, "change")),
                      pct |-> signed_cell(dict_get(e, "change_pct")),
                      time |-> html_escape(time_str)])

\* 52weeksboard.py fmt_num(x) or Dash
fmt_num_or_dash(x) == IF x = None THEN Placeholder(Dash) ELSE Formatted(x)

\* 52weeksboard.py build_html, the body of the loop for one instrument
board_row(display_name, ticker, vals) ==
    LET low == dict_get(vals, "yearLow")
        high == dict_get(vals, "yearHigh")
        close == py_or(py_or(py_or(dict_get(vals, "close"),
                                   dict_get(vals, "regularMarketPrice")),
                             dict_get(vals, "lastClose")),
                       dict_get(vals, "closePrice"))
        prev == py_or(py_or(py_or(dict_get(vals, "previousClose"),
                                  dict_get(vals, "prevClose")),
                            dict_get(vals, "regularMarketPreviousClose")),
                      dict_get(vals, "previous_close"))
        arrow == IF close = None \/ prev = None \/ isnan(close) \/ isnan(prev)
                 THEN "muted"
                 ELSE IF close[2] > prev[2] THEN "up"
                 ELSE IF close[2] < prev[2] THEN "down"
                 ELSE "muted"
    IN  IF html_escape(display_name) = Raises \/ html_escape(ticker) = Raises
        THEN Raises
        ELSE Tr([name |-> html_escape(display_name),
                 ticker |-> html_escape(ticker),
                 low |-> fmt_num_or_dash(low),
                 close |-> fmt_num_or_dash(close),
                 arrow |-> arrow,
                 high |-> fmt_num_or_dash(high)])

-----------------------------------------------------------------------------
(* The dashboard scripts: what they fetch, render and write *)

\* d.get(k, default)
dict_get_default(d, k, default) == IF k \in DOMAIN d[2] THEN d[2][k] ELSE default

\* what extract_from_batch returns for a ticker the batch has two bars of
Bar(price, change, change_pct, time, source) ==
    PyDict([price |-> price, change |-> change, change_pct |-> change_pct,
            time |-> PyStr(time), source |-> PyStr(source)])

\* the ticker is not among the columns of the batch frame
NotInBatch == <<"absent">>

NotAllNaN(r) == \E c \in AllColumns : r[c] # NaN

\* df.dropna(how="all"): the rows with at least one value
dropna_all(rws) == SelectSeq(rws, NotAllNaN)

\* today_close - yday_close
float_sub(a, b) == IF a = NaN \/ b = NaN THEN NaN ELSE PyFloat(a[2] - b[2])

\* change / yday_close * 100, kept as a quotient when it is not whole
float_pct(change, yday) ==
    IF change = NaN \/ yday = NaN THEN NaN
    ELSE IF (change[2] * 100) % yday[2] = 0
         THEN PyFloat((change[2] * 100) \div yday[2])
         ELSE <<"float", change[2] * 100, yday[2], "quotient">>

\* stockpricesdaily.py extract_from_batch, for the bars b the batch holds
\* for the ticker: None without a batch, without the ticker or with fewer
\* than two rows, else the last Close and its change from the one before
extract_from_batch(b) ==
    IF b = None \/ b = NotInBatch \/ frame_empty(b) THEN None
    ELSE LET df == dropna_all(b[2])
             n == Len(df)
             today_close == df[n].Close
             yday_close == df[n - 1].Close
             change == float_sub(today_close, yday_close)
         IN  IF n < 2 THEN None
             ELSE Bar(today_close, change,
                      IF yday_close = NaN \/ yday_close[2] # 0
                      THEN float_pct(change, yday_close) ELSE PyFloat(0),
                      "15:30", "daily-bars")

\* stockpricesdaily.py extract_from_batch: None when the batch download
\* failed or has no two rows for the ticker
BatchResultsDaily ==
    {None,
     Bar(PyFloat(105), PyFloat(5), PyFloat(5), "15:30", "daily-bars"),
     Bar(PyFloat(105), NaN, NaN, "15:30", "daily-bars")}

\* the 52-week values merged in, from the cache or from the refresh: an
\* entry with numbers, an all-absent entry, or no entry for the ticker
Values52Daily == {QuoteDaily(PyFloat(20), PyFloat(3)), AllAbsentDaily, EmptyDict}

\* stockpricesdaily.py lines 238-243 and 253-258 / 305-310: the entry of one
\* ticker in the returned map
daily_entry(name, b, w) ==
    LET base == IF Truthy(b) THEN dict_set(b[2], "display_name", PyStr(name))
                ELSE [display_name |-> PyStr(name)]
    IN  PyDict(dict_set(dict_set(base, "yearHigh", dict_get(w, "yearHigh")),
                        "yearLow", dict_get(w, "yearLow")))

\* stockpricesdaily.py fetch_with_yfinance_fast: {} when the import fails
QuoteMapsDaily ==
    {<< >>} \cup
    {[t \in Range(registry_tickers) |->
         daily_entry(RegistryNames[CHOOSE i \in 1..NumSymbols : registry_tickers[i] = t],
                     b[t], w[t])] :
       b \in [Range(registry_tickers) -> BatchResultsDaily],
       w \in [Range(registry_tickers) -> Values52Daily]}

\* stockprices.py extract_from_batch
BatchResultsStock ==
    {None,
     Bar(PyFloat(105), PyFloat(-5), PyFloat(-5), "15:30", "batch-history"),
     Bar(PyFloat(105), None, None, "15:30", "batch-history")}

\* stockprices.py fetch_fast, for a ticker the batch did not supply: a price
\* with or without a change, no price, or the entry of its except branch
FastResults ==
    {[price |-> PyFloat(105), change |-> PyFloat(5), change_pct |-> PyFloat(5),
      time |-> PyStr("09:15"), source |-> PyStr("fast_info")],
     [price |-> PyFloat(105), change |-> None, change_pct |-> None,
      time |-> PyStr("09:15"), source |-> PyStr("info_fallback")],
     [price |-> None, change |-> None, change_pct |-> None,
      time |-> PyStr("09:15"), source |-> PyStr("info_fallback")],
     [price |-> None, change |-> None, change_pct |-> None,
      time |-> None, source |-> None]}

\* stockprices.py lines 277-347: the entry of one ticker in the returned map
stock_entry(name, b, f) ==
    PyDict(dict_set(IF Truthy(b) THEN b[2] ELSE f, "display_name", PyStr(name)))

\* stockprices.py fetch_with_yfinance_fast: {} when the import fails
QuoteMapsStock ==
    {<< >>} \cup
    {[t \in Range(registry_tickers) |->
         stock_entry(RegistryNames[CHOOSE i \in 1..NumSymbols : registry_tickers[i] = t],
                     b[t], f[t])] :
       b \in [Range(registry_tickers) -> BatchResultsStock],
       f \in [Range(registry_tickers) -> FastResults]}

QuoteMaps(v) == IF v = "daily" THEN QuoteMapsDaily ELSE QuoteMapsStock

\* quote_map.get(sym, default)
quote_map_get(qm, sym, default) == IF sym \in DOMAIN qm THEN qm[sym] ELSE default

\* 52weeksboard.py load_cache: None unless the file exists and parses
board_load_cache(d) ==
    IF ReadRaises(d) \/ d.kind = "missing" THEN None ELSE json_loads(d.text)

\* the per-ticker entries the cache file can hold when the board reads it
BoardValues ==
    {Quote52(PyFloat(20), PyFloat(3), PyFloat(105), PyFloat(100)),
     Quote52(PyFloat(20), PyFloat(3), PyFloat(100), PyFloat(105)),
     Quote52(PyFloat(20), PyFloat(3), PyFloat(105), None),
     QuoteDaily(PyFloat(20), PyFloat(3)),
     AllAbsent52,
     EmptyDict}

BoardEnvelope(vals) ==
    PyDict([date |-> PyStr(isoformat(1)), symbols |-> symbol_values,
            values |-> PyDict(vals)])

\* the cache file when the board starts
DashboardDisks ==
    {MissingFile, File(InvalidText), File(json_dumps(StaleEnvelope))} \cup
    {File(json_dumps(BoardEnvelope(vals))) :
       vals \in [Range(registry_tickers) -> BoardValues]}

\* 52weeksboard.py build_html lines 80-90: the vals of one ticker
board_vals(c, ticker) ==
    LET values == IF Truthy(c) THEN dict_get_default(c, "values", EmptyDict)
                  ELSE EmptyDict
    IN  IF Truthy(values) THEN dict_get_default(values, ticker, EmptyDict)
        ELSE EmptyDict

\* the registry in the order the cache file lists its values
symbols_items_by_arrival(c) ==
    IF key_order.values = << >> THEN SYMBOLS
    ELSE [i \in DOMAIN key_order.values |->
             SYMBOLS[CHOOSE j \in 1..NumSymbols : SYMBOLS[j][2] = key_order.values[i]]]

\* 52weeksboard.py lines 79 and 83: symbols_map.items(), the "symbols" of
\* the cache in the key order of the file if it has any, else SYMBOLS
symbols_items(c) ==
    IF isinstance_dict(c) /\ Truthy(dict_get(c, "symbols"))
    THEN LET sm == dict_get(c, "symbols")
             order == IF key_order.symbols # << >> THEN key_order.symbols
                      ELSE [i \in 1..NumSymbols |-> SYMBOLS[i][1]]
         IN  [i \in DOMAIN order |-> <<order[i], sm[2][order[i]][2]>>]
    ELSE SYMBOLS

\* the rows of the page, in the order the script iterates; Raises if a row
\* raised
build_rows(v, qm, c) ==
    LET items == IF v \in {"daily", "stockprices"} THEN SYMBOLS ELSE symbols_items(c)
        row(i) ==
          CASE v = "daily" ->
                 make_row_daily(PyStr(SYMBOLS[i][1]),
                                quote_map_get(qm, SYMBOLS[i][2], EmptyDict))
            [] v = "stockprices" ->
                 make_row_stockprices(PyStr(SYMBOLS[i][1]),
                                      quote_map_get(qm, SYMBOLS[i][2], None))
            [] OTHER ->
                 IF Truthy(c) /\ ~isinstance_dict(c) THEN Raises
                 ELSE board_row(PyStr(items[i][1]), PyStr(items[i][2]),
                                board_vals(c, items[i][2]))
    IN  IF \E i \in DOMAIN items : row(i) = Raises THEN Raises
        ELSE <<"tbody", [i \in DOMAIN items |-> row(i)]>>

\* main_parent: the loading page is written, the browser opened, and the
\* detached fetch process spawned; a failed Popen is only logged
main_parent(v, spawned) ==
    /\ d_pc = "start"
    /\ view' = v
    /\ report' = "loading"
    /\ d_pc' = IF spawned THEN "fetch" ELSE "not_spawned"
    /\ UNCHANGED <<quote_map, board_cache, rows_html>>
    /\ UNCHANGED frameOfDashboard

\* fetch_and_write, first half: fetch_with_yfinance_fast returns
fetch_with_yfinance_fast(qm) ==
    /\ d_pc = "fetch"
    /\ quote_map' = qm
    /\ d_pc' = "build"
    /\ UNCHANGED <<view, report, board_cache, rows_html>>
    /\ UNCHANGED frameOfDashboard

\* fetch_and_write, second half: build_final_html and the write of OUT_FILE;
\* an exception of build_final_html is logged and the file is not written
fetch_and_write ==
    /\ d_pc = "build"
    /\ view \in {"daily", "stockprices"}
    /\ rows_html' = build_rows(view, quote_map, board_cache)
    /\ report' = IF rows_html' = Raises THEN report ELSE "final"
    /\ d_pc' = "done"
    /\ UNCHANGED <<view, quote_map, board_cache>>
    /\ UNCHANGED frameOfDashboard

\* before the board is run, the cache file is what the updaters left
updater_leaves(d) ==
    /\ d_pc = "start"
    /\ disk' = d
    /\ d_pc' = "cache_left"
    /\ UNCHANGED <<today, script, force, single, pc, path, fresh, cache,
                   tickers, fut, yielded, results, payload, saved>>
    /\ UNCHANGED <<rvars, cvars, hvars, bvars, gvars>>
    /\ UNCHANGED <<view, report, quote_map, board_cache, rows_html>>

\* 52weeksboard.py main, first half: load_cache
board_main_loads ==
    /\ d_pc \in {"start", "cache_left"}
    /\ view' = "board"
    /\ board_cache' = board_load_cache(disk)
    /\ d_pc' = "build"
    /\ UNCHANGED <<report, quote_map, rows_html>>
    /\ UNCHANGED frameOfDashboard

\* 52weeksboard.py main, second half: build_html and save_and_open
board_main_writes ==
    /\ d_pc = "build"
    /\ view = "board"
    /\ rows_html' = build_rows(view, quote_map, board_cache)
    /\ report' = IF rows_html' = Raises THEN report ELSE "final"
    /\ d_pc' = "done"
    /\ UNCHANGED <<view, quote_map, board_cache>>
    /\ UNCHANGED frameOfDashboard

NextDashboard ==
    \/ \E v \in {"daily", "stockprices"}, spawned \in BOOLEAN : main_parent(v, spawned)
    \/ \E qm \in QuoteMaps(view) : fetch_with_yfinance_fast(qm)
    \/ fetch_and_write
    \/ \E d \in DashboardDisks : updater_leaves(d)
    \/ board_main_loads
    \/ board_main_writes

InitDashboardSpec ==
    /\ InitPass(MissingFile)
    /\ InitResolver
    /\ InitCoercion
    /\ InitDashboard
    /\ InitUntracked
    /\ InitBatch
    /\ InitGold

SpecDashboard == InitDashboardSpec /\ [][NextDashboard]_vars

-----------------------------------------------------------------------------
(* A full refresh of 52weeks.py followed by a run of the board, with the   *)
(* order in which the results arrived kept                                 *)

NextOrder ==
    \/ pc = "IDLE" /\ \E f \in BOOLEAN : StartPass("52weeks", f, None)
    \/ CheckCache
    \/ Dispatch
    \/ \E t \in DOMAIN fut : WorkerStart(t)
    \/ \E t \in DOMAIN fut : \E q \in WorkerResults(script) : WorkerReturns(t, q)
    \/ \E t \in DOMAIN fut : WorkerRaises(t)
    \/ \E t \in DOMAIN fut : Collect(t)
    \/ \E o \in SaveOutcomes : Persist(o)
    \/ pc = "DONE" /\ board_main_loads
    \/ board_main_writes

InitOrderSpec ==
    InitPass(File(json_dumps(StaleEnvelope))) /\ InitResolver /\ InitCoercion
    /\ InitDashboard
    /\ InitTracked
    /\ InitBatch
    /\ InitGold

SpecOrder == InitOrderSpec /\ [][NextOrder]_vars

-----------------------------------------------------------------------------
(* The gold price service (gold.py): /price requests served by concurrent  *)
(* threads over the shared _cache; a block under _cache_lock is one step   *)

CACHE_TTL == 300

\* OZ_TO_GRAMS = 31.1034768, in thousandths (the integers of the model have
\* 32 bits)
OZ_TO_GRAMS_E3 == 31103

\* time.time(), in seconds
time_time == gold_now * TickSeconds

\* is_cache_valid
is_cache_valid(entry) ==
    entry.value # None /\ entry.ts # None /\ (time_time - entry.ts[2]) < CACHE_TTL

\* retry(..., attempts=2, delay=0.5)
retry_attempts == 2

\* what a fetcher returns when it succeeds: (number, source time, source)
Fetched(e) ==
    IF e = "gold" THEN <<PyFloat(2000 + gold_now), <<"instant", gold_now>>, PyStr("yfinance(history)")>>
    ELSE <<PyFloat(80 + gold_now), <<"instant", gold_now>>, PyStr("exchangerate.host")>>

\* the entry that keeps only the value
entry_without_ts(e, val) ==
    [value |-> IF e = "gold"
               THEN PyDict([usd_per_oz |-> val[1], ts |-> val[2], source |-> val[3]])
               ELSE PyDict([usd_to_inr |-> val[1], date |-> val[2], source |-> val[3]]),
     ts |-> None]

\* lines 131-132 and 141-142: the value dict and the time of the write
stored_entry(e, val) ==
    [value |-> IF e = "gold"
               THEN PyDict([usd_per_oz |-> val[1], ts |-> val[2], source |-> val[3]])
               ELSE PyDict([usd_to_inr |-> val[1], date |-> val[2], source |-> val[3]]),
     ts |-> PyFloat(time_time)]

Http(status, body) == <<"http", status, body>>

\* usd_oz_to_inr_per_gram, in whole rupees
usd_oz_to_inr_per_gram(usd_per_oz, usd_to_inr) ==
    (usd_per_oz * usd_to_inr * 1000) \div OZ_TO_GRAMS_E3

\* retail_price with the default premium 6 %, making charge 150 and GST 3 %
retail_price(inr_per_gram) ==
    ((((inr_per_gram * 106) \div 100) + 150) * 103) \div 100

\* lines 238-257: the response built from the two cached values
price_response(gold, fx) ==
    LET usd_per_oz == dict_get(gold, "usd_per_oz")[2]
        usd_to_inr == dict_get(fx, "usd_to_inr")[2]
        inr == usd_oz_to_inr_per_gram(usd_per_oz, usd_to_inr)
    IN  Http(200, [usd_per_oz |-> usd_per_oz, usd_to_inr |-> usd_to_inr,
                   inr_per_gram |-> inr,
                   retail_estimate_per_gram |-> retail_price(inr)])

\* the step after get_cached_gold is get_cached_fx, after that the response
got_value(req, v) ==
    IF req.entry = "gold"
    THEN [req EXCEPT !.gold = v, !.entry = "fx", !.pc = "check"]
    ELSE [req EXCEPT !.fx = v, !.pc = "respond"]

\* a request arrives; price() parses its arguments, 400 if one is no number
price_called(r, args_ok) ==
    /\ requests[r].pc = "idle"
    /\ requests' = [requests EXCEPT ![r] =
          IF args_ok THEN [requests[r] EXCEPT !.pc = "check", !.entry = "gold"]
          ELSE [requests[r] EXCEPT !.pc = "done",
                                   !.resp = Http(400, "invalid argument")]]
    /\ UNCHANGED <<gold_cache, gold_now>>
    /\ UNCHANGED frameOfGold

\* get_cached_gold / get_cached_fx, first locked block: a valid entry is
\* returned, otherwise the lock is released and the fetch begins
get_cached_checks(r) ==
    /\ requests[r].pc = "check"
    /\ requests' = [requests EXCEPT ![r] =
          IF is_cache_valid(gold_cache[requests[r].entry])
          THEN got_value(requests[r], gold_cache[requests[r].entry].value)
          ELSE [requests[r] EXCEPT !.pc = "fetch", !.tries = 0]]
    /\ UNCHANGED <<gold_cache, gold_now>>
    /\ UNCHANGED frameOfGold

\* retry: the fetcher returns
fetch_succeeds(r) ==
    /\ requests[r].pc = "fetch"
    /\ requests' = [requests EXCEPT ![r] =
          [requests[r] EXCEPT !.pc = "store", !.val = Fetched(requests[r].entry)]]
    /\ UNCHANGED <<gold_cache, gold_now>>
    /\ UNCHANGED frameOfGold

\* retry: the fetcher raises; after the last attempt the exception reaches
\* price(), which answers 502
fetch_fails(r) ==
    /\ requests[r].pc = "fetch"
    /\ requests' = [requests EXCEPT ![r] =
          IF requests[r].tries + 1 >= retry_attempts
          THEN [requests[r] EXCEPT !.tries = requests[r].tries + 1, !.pc = "done",
                                   !.resp = Http(502, requests[r].entry)]
          ELSE [requests[r] EXCEPT !.tries = requests[r].tries + 1]]
    /\ UNCHANGED <<gold_cache, gold_now>>
    /\ UNCHANGED frameOfGold

\* second locked block: value and ts are written
cache_store(r) ==
    /\ requests[r].pc = "store"
    /\ gold_cache' = [gold_cache EXCEPT ![requests[r].entry] =
                         stored_entry(requests[r].entry, requests[r].val)]
    /\ requests' = [requests EXCEPT ![r].pc = "return"]
    /\ UNCHANGED gold_now
    /\ UNCHANGED frameOfGold

\* return _cache[...]["value"], read after the lock was released
cache_return(r) ==
    /\ requests[r].pc = "return"
    /\ requests' = [requests EXCEPT ![r] =
                       got_value(requests[r], gold_cache[requests[r].entry].value)]
    /\ UNCHANGED <<gold_cache, gold_now>>
    /\ UNCHANGED frameOfGold

\* price(): the response is computed and sent
price_responds(r) ==
    /\ requests[r].pc = "respond"
    /\ requests' = [requests EXCEPT ![r] =
          [requests[r] EXCEPT !.pc = "done",
                              !.resp = price_response(requests[r].gold, requests[r].fx)]]
    /\ UNCHANGED <<gold_cache, gold_now>>
    /\ UNCHANGED frameOfGold

\* time passes
Tick ==
    /\ gold_now < MaxTicks
    /\ gold_now' = gold_now + 1
    /\ UNCHANGED <<gold_cache, requests>>
    /\ UNCHANGED frameOfGold

NextGold ==
    \/ \E r \in 1..NumRequests, a \in BOOLEAN : price_called(r, a)
    \/ \E r \in 1..NumRequests : get_cached_checks(r)
    \/ \E r \in 1..NumRequests : fetch_succeeds(r)
    \/ \E r \in 1..NumRequests : fetch_fails(r)
    \/ \E r \in 1..NumRequests : cache_store(r)
    \/ \E r \in 1..NumRequests : cache_return(r)
    \/ \E r \in 1..NumRequests : price_responds(r)
    \/ Tick

InitGoldSpec ==
    InitPass(MissingFile) /\ InitResolver /\ InitCoercion /\ InitDashboard
    /\ InitUntracked
    /\ InitBatch
    /\ InitGold

SpecGold == InitGoldSpec /\ [][NextGold]_vars

-----------------------------------------------------------------------------
(* extract_from_batch on its own *)

\* a daily bar: its High and Low present or not, its Close NaN, 100 or 105
BatchRows ==
    {Row(h, h, c) : h \in {NaN, PyFloat(110)}, c \in {NaN, PyFloat(100), PyFloat(105)}}

\* what the batch can hold for a ticker: nothing (download failed), no
\* column of the ticker, or up to MaxRows bars
BatchInputs ==
    {None, NotInBatch} \cup
    {Frame(rws, AllColumns) : rws \in UNION {[1..n -> BatchRows] : n \in 0..MaxRows}}

extract_from_batch_called(b) ==
    /\ eb_pc = "none"
    /\ eb_pc' = "call"
    /\ eb_batch' = b
    /\ UNCHANGED eb_ret
    /\ UNCHANGED frameOfBatch

extract_from_batch_returns ==
    /\ eb_pc = "call"
    /\ eb_pc' = "returned"
    /\ eb_ret' = extract_from_batch(eb_batch)
    /\ UNCHANGED eb_batch
    /\ UNCHANGED frameOfBatch

NextBatch ==
    \/ \E b \in BatchInputs : extract_from_batch_called(b)
    \/ extract_from_batch_returns

InitBatchSpec ==
    InitPass(MissingFile) /\ InitResolver /\ InitCoercion /\ InitDashboard
    /\ InitUntracked
    /\ InitBatch
    /\ InitGold

SpecBatch == InitBatchSpec /\ [][NextBatch]_vars

-----------------------------------------------------------------------------
(* Properties *)

LoopFinished == pc = "DONE" /\ path = "stale"

\* C1: when the collection loop of the dispatcher has finished, the aggregate
\* map has exactly one entry per requested ticker (none dropped, none extra),
\* whether the task returned values, returned all fields None or raised; the
\* values of the envelope built from it are that map.
C1_OneEntryPerTicker ==
    LoopFinished =>
        /\ DOMAIN results = Range(tickers)
        /\ Cardinality(DOMAIN results) = Len(tickers)
        /\ \A t \in DOMAIN results :
              results[t] = IF fut[t].st = "returned" THEN fut[t].vals
                           ELSE AllAbsent(script)
        /\ dict_get(payload, "values") = PyDict(results)

\* C1 witness: a full-registry batch finished in which one task raised and
\* another returned all fields None
C1_Witness ==
    /\ LoopFinished
    /\ single = None
    /\ \E t \in DOMAIN fut : fut[t].st = "raised"
    /\ \E t \in DOMAIN fut : fut[t].st = "returned" /\ fut[t].vals = AllAbsent(script)

\* C2: a ticker whose task ran longer than PER_TICKER_TIMEOUT is recorded in
\* the aggregate result with all fields absent.
C2_TimedOutTaskIsAbsent ==
    \A t \in yielded : fut[t].overran => results[t] = AllAbsent(script)

\* C3: a pass over the registry always reaches its end: as long as it has not
\* ended, it has a next step to take, also when the upstream call of one
\* task never returns.
C3_PassReachesEnd ==
    (single = None /\ Cardinality({t \in DOMAIN fut : fut[t].st = "hung"}) <= 1)
        => (pc \in {"IDLE", "DONE", "EXIT1"} \/ ENABLED PassStep)

StoredDateIsToday(c, day) ==
    /\ isinstance_dict(c)
    /\ "date" \in DOMAIN c[2]
    /\ c[2]["date"] = PyStr(IsoDays[day])

\* C4: whenever a pass evaluates the freshness check, its value is true iff
\* the loaded envelope has a date and that date string equals today's local
\* ISO date string; an empty envelope or one without a date is not fresh.
C4_FreshIffDateIsToday ==
    [][(pc = "CHECK_CACHE" /\ pc' \in {"DONE", "DISPATCH"}
        /\ (script = "daily" \/ ~force))
       => (fresh' <=> StoredDateIsToday(cache, today))]_vars

\* C4 witness: a pass found fresh an envelope that an earlier pass saved after
\* the date had advanced
C4_Witness ==
    /\ pc = "DONE"
    /\ path = "fresh"
    /\ fresh
    /\ today > 1
    /\ StoredDateIsToday(cache, today)

\* C5 (as claimed): a forced pass always dispatches the full registry and
\* leaves the new envelope in the cache file.
C5_ForcedPassRefreshesAll ==
    (pc \in {"DONE", "EXIT1"} /\ force) =>
        /\ LoopFinished
        /\ tickers = registry_tickers
        /\ disk = File(json_dumps(payload))

\* C5 (amended): a forced pass never skips as fresh and never fails on the
\* stored content; it dispatches the full registry, or the one named ticker
\* when a single ticker is given, and calls save with the envelope built from
\* the results, which is the file's content when the write succeeds.
C5_ForcedPassNeverSkips ==
    (pc \in {"DONE", "EXIT1"} /\ force) =>
        /\ LoopFinished
        /\ tickers = (IF single = None THEN registry_tickers ELSE <<single[2]>>)
        /\ DOMAIN results = Range(tickers)
        /\ saved \in SaveOutcomes
        /\ dict_get(payload, "values") = PyDict(results)
        /\ saved = "ok" => disk = File(json_dumps(payload))

\* C5 witness: a forced full pass ran to its end although the loaded envelope
\* carried today's date
C5_Witness ==
    /\ LoopFinished
    /\ force
    /\ single = None
    /\ StoredDateIsToday(cache, today)
    /\ saved = "ok"

\* the file holds an envelope with the full registry's symbols mapping and
\* the date of day
CarriesFullRegistry(d, day) ==
    /\ d.kind = "file"
    /\ d.text # InvalidText
    /\ isinstance_dict(json_loads(d.text))
    /\ dict_get(json_loads(d.text), "symbols") = symbol_values
    /\ dict_get(json_loads(d.text), "date") = PyStr(IsoDays[day])

\* C6: a single-ticker pass is not skipped when the cache is fresh, and it
\* writes no envelope carrying the full registry's symbols mapping and
\* today's date.
C6_SinglePassWritesNoRegistryEnvelope ==
    [][(script = "52weeks" /\ single # None) =>
        /\ (pc = "CHECK_CACHE" /\ pc' \in {"DONE", "DISPATCH"}) => path' = "stale"
        /\ disk' # disk => ~CarriesFullRegistry(disk', today)]_vars

\* the file does not hold a JSON object
NotAnEnvelope(d) ==
    \/ d.kind # "file"
    \/ d.text = InvalidText
    \/ ~isinstance_dict(json_loads(d.text))

\* C7: loading never raises and always yields an envelope, the empty one when
\* the file is missing, unreadable or holds no envelope, so that the freshness
\* check of the caller can be evaluated.
C7_LoadYieldsEnvelope ==
    /\ pc = "CHECK_CACHE" =>
          /\ isinstance_dict(cache)
          /\ NotAnEnvelope(disk) => cache = EmptyDict
    /\ pc # "EXIT1"

\* C8: a save that fails is not raised (the pass ends normally) and leaves the
\* previous envelope in the cache file.
C8_FailedSaveKeepsFile ==
    [][(pc = "COLLECT" /\ pc' = "DONE" /\ saved' # "ok" /\ ~NotAnEnvelope(disk))
       => disk' = disk]_vars

AllRaised == \A i \in DOMAIN outcomes : outcomes[i] = "raised"

\* C10: fetch_52w_for_symbol makes at most 3 attempts; no attempt follows one
\* that completed, and the result is the one of that attempt; when 3 attempts
\* raised it has returned all four fields absent; it gives up on nothing less.
C10_AtMostThreeAttempts ==
    /\ Len(outcomes) <= 3
    /\ \A i \in DOMAIN outcomes : i < Len(outcomes) => outcomes[i] = "raised"
    /\ (outcomes # << >> /\ ~AllRaised) =>
          (rpc = "returned" /\ ret = attempt_vals(served))
    /\ (Len(outcomes) = 3 /\ AllRaised) => (rpc = "returned" /\ ret = AllAbsent52)
    /\ (rpc = "returned" /\ outcomes # << >> /\ AllRaised) => Len(outcomes) = 3

\* C10 witness: the run returned after three attempts that all raised
C10_Witness == rpc = "returned" /\ outcomes = <<"raised", "raised", "raised">>

\* a text that writes a number with thousands separators: one to three
\* digits, groups of a comma and three digits, and an optional fraction
IsGroupedNumeral(t) ==
    LET dots == {i \in DOMAIN t : t[i] = "."}
        dot == IF dots = {} THEN Len(t) + 1 ELSE CHOOSE i \in dots : TRUE
        commas == {i \in 1..(dot - 1) : t[i] = ","}
        first == IF commas = {} THEN dot
                 ELSE CHOOSE i \in commas : \A j \in commas : i <= j
    IN  /\ Cardinality(dots) <= 1
        /\ \A i \in DOMAIN t : IsDigit(t[i]) \/ i \in dots \/ i \in commas
        /\ first \in 2..4
        /\ \A i \in commas : (i - first) % 4 = 0
        /\ commas # {} => (dot - first) % 4 = 0
        /\ dot # Len(t)

\* the number a grouped numeral writes
NumeralValue(t) ==
    LET dots == {i \in DOMAIN t : t[i] = "."}
        dot == IF dots = {} THEN Len(t) + 1 ELSE CHOOSE i \in dots : TRUE
        sig == drop_trailing(SubSeq(t, dot + 1, Len(t)), "0")
    IN  PyDecimal(digits_value(SelectSeq(SubSeq(t, 1, dot - 1), IsDigit) \o sig),
                  Len(sig))

IsNumber(x) == TypeOf(x) = "float"

\* a text with a character no numeral has
HasForeignChar(t) == \E i \in DOMAIN t : t[i] \in {"a", "b", "c"}

\* C11: safe_float never raises; a number comes back as that number, a text
\* that writes a number with thousands separators as the number it writes,
\* and None (also the value of a missing key) or a text that does not parse
\* as absent (None).
C11_SafeFloatTotal ==
    sf_pc = "returned" =>
        /\ sf_ret # Raises
        /\ IsNumber(sf_x) => sf_ret = sf_x
        /\ (TypeOf(sf_x) = "text" /\ IsGroupedNumeral(sf_x[2]))
              => sf_ret = NumeralValue(sf_x[2])
        /\ sf_x = None => sf_ret = None
        /\ (TypeOf(sf_x) = "text" /\ HasForeignChar(sf_x[2])) => sf_ret = None
        /\ (sf_x # None /\ parse_float(sf_x) = Raises) => sf_ret = None

\* C11 witness: the text "1,234.50" came back as 1234.5
C11_Witness ==
    /\ sf_pc = "returned"
    /\ sf_x = PyText(<<"1", ",", "2", "3", "4", ".", "5", "0">>)
    /\ sf_ret = PyDecimal(12345, 1)

\* the quote of instrument i that the finished run passed to its row
\* formatting
ShownEntry(i) ==
    CASE view = "daily" -> quote_map_get(quote_map, SYMBOLS[i][2], EmptyDict)
      [] view = "stockprices" -> quote_map_get(quote_map, SYMBOLS[i][2], None)
      [] OTHER -> board_vals(board_cache, SYMBOLS[i][2])

QuoteFields == {"price", "change", "change_pct", "time",
                "yearHigh", "yearLow", "close", "previousClose"}

\* every field of the quote is None or not there at all
AllFieldsAbsent(e) == e = None \/ \A k \in QuoteFields : dict_get(e, k) = None

\* a cell that shows a placeholder (an empty time cell counts as one)
IsPlaceholderCell(c) == TypeOf(c) = "placeholder" \/ c = Escaped("")

DataCells(cells) == DOMAIN cells \ {"name", "ticker", "arrow"}

\* C12: in every dashboard (daily, stockprices, board), a quote whose fields
\* are all absent, also one with no price, change or time key at all, goes
\* through the row formatting without an exception, and its row shows a
\* placeholder in every data cell.
C12_AbsentQuoteRendersPlaceholders ==
    d_pc = "done" =>
        \A i \in 1..NumSymbols :
            AllFieldsAbsent(ShownEntry(i)) =>
                /\ rows_html # Raises
                /\ \A k \in DataCells(rows_html[2][i][2]) :
                      IsPlaceholderCell(rows_html[2][i][2][k])

\* C13: when the fetch process of a dashboard script (daily, stockprices)
\* has finished, the report file holds the final page, whatever data was
\* absent; the loading page of the parent does not stay.
C13_FetchPassWritesFinalPage ==
    (view \in {"daily", "stockprices"} /\ d_pc = "done") => report = "final"

\* a value of a returned field: a number (NaN included) or None
IsFieldValue(x) == TypeOf(x) \in {"NoneType", "float", "nan"}

\* a dict of exactly the four fields, each a number or None
IsQuote52(q) ==
    /\ isinstance_dict(q)
    /\ DOMAIN q[2] = {"yearHigh", "yearLow", "close", "previousClose"}
    /\ \A k \in DOMAIN q[2] : IsFieldValue(q[2][k])

\* C14: no exception leaves the per-ticker resolver (a run that has returned
\* has returned a quote of four fields, each a number or None, all None when
\* the last attempt raised), and no exception of a task leaves the
\* dispatcher (the loop stays in its collection, the entry of a ticker whose
\* task raised is all-absent, and the entry of every other ticker is what
\* its own task returned).
C14_NoExceptionCrossesBoundary ==
    /\ rpc = "returned" =>
          /\ IsQuote52(ret)
          /\ (outcomes # << >> /\ outcomes[Len(outcomes)] = "raised")
                => ret = AllAbsent52
    /\ pc = "COLLECT"
    /\ \A t \in yielded :
          /\ t \in DOMAIN results
          /\ IsQuote52(results[t])
          /\ results[t] = IF fut[t].st = "raised" THEN AllAbsent52 ELSE fut[t].vals

\* C14 witness: the 1-year history query raised inside an attempt that still
\* resolved values, the task of another ticker raised, and both were
\* collected: the other ticker is all-absent, the followed one is not
C14_Witness ==
    /\ yielded = DOMAIN fut
    /\ served.h1 = Raises
    /\ outcomes = <<"completed">>
    /\ results[followed_ticker] # AllAbsent52
    /\ \E t \in DOMAIN fut : fut[t].st = "raised" /\ results[t] = AllAbsent52

\* every task of the batch has ended or has run past PER_TICKER_TIMEOUT
EveryTaskEndedOrTimedOut ==
    \A t \in DOMAIN fut : fut[t].st \in {"returned", "raised"} \/ fut[t].overran

\* C15: the updater (52weeks.py) exits with status 1 only from main's own
\* steps, before anything is dispatched; once a refresh is dispatched,
\* tickers that fail (all fields None, task exception, task past its
\* timeout) never lead to status 1, and when every task has ended or timed
\* out the pass goes on to its end with status 0.
C15_TickerFailuresExitZero ==
    script = "52weeks" =>
        /\ pc = "EXIT1" => path = "none"
        /\ (pc = "COLLECT" /\ EveryTaskEndedOrTimedOut) => ENABLED PassStep

\* C16: in every envelope that a pass has persisted, the date is the local
\* day on which the numbers among its values were computed, also when the
\* local date changed during the pass.
C16_DateIsDayOfComputation ==
    (pc = "DONE" /\ path = "stale" /\ saved = "ok") =>
        \A d \in computed_on.days : dict_get(payload, "date") = PyStr(isoformat(d))

\* the entries of the envelope a pass has just written to the cache file
WrittenEntries == dict_get(json_loads(disk.text), "values")

\* C17: every envelope written to 52w_cache.json, by either script that
\* writes it, has for every ticker entry exactly the four fields yearHigh,
\* yearLow, close and previousClose, each a number or null.
C17_WrittenEntriesHaveFourFields ==
    (pc = "DONE" /\ path = "stale" /\ saved = "ok") =>
        \A t \in DOMAIN WrittenEntries[2] : IsQuote52(WrittenEntries[2][t])

\* the steps of the state machine; the step from COLLECT to DONE is PERSIST,
\* and a pass whose check raises ends at CHECK_CACHE with exit status 1
PassEdges ==
    { <<"IDLE", "CHECK_CACHE">>, <<"DONE", "CHECK_CACHE">>,
      <<"EXIT1", "CHECK_CACHE">>, <<"CHECK_CACHE", "DONE">>,
      <<"CHECK_CACHE", "DISPATCH">>, <<"CHECK_CACHE", "EXIT1">>,
      <<"DISPATCH", "COLLECT">>, <<"COLLECT", "DONE">> }

SnapshotKeys ==
    [yearHigh |-> <<"yearHigh", "fiftyTwoWeekHigh", "52WeekHigh">>,
     yearLow |-> <<"yearLow", "fiftyTwoWeekLow", "52WeekLow">>,
     close |-> <<"lastPrice", "regularMarketPrice", "last_close">>,
     previousClose |-> <<"previousClose", "regularMarketPreviousClose">>]

MetadataKeys ==
    [yearHigh |-> <<"fiftyTwoWeekHigh", "52WeekHigh", "yearHigh">>,
     yearLow |-> <<"fiftyTwoWeekLow", "52WeekLow", "yearLow">>,
     close |-> <<"regularMarketPrice", "currentPrice", "close", "lastClose">>,
     previousClose |-> <<"previousClose", "regularMarketPreviousClose">>]

\* the first value under one of the keys that is present (not None), zero
\* included
RECURSIVE FirstPresent(_, _)
FirstPresent(d, keys) ==
    IF keys = << >> \/ ~isinstance_dict(d) THEN None
    ELSE IF dict_get(d, Head(keys)) # None THEN dict_get(d, Head(keys))
    ELSE FirstPresent(d, Tail(keys))

NothingResolved == [high |-> None, low |-> None, close |-> None, prev |-> None]

\* what the history accessor alone supplies for a field
HistoryValue(up, field) ==
    LET h == history_tier(NothingResolved, up)
    IN  CASE field = "yearHigh" -> h.high
          [] field = "yearLow" -> h.low
          [] field = "close" -> h.close
          [] field = "previousClose" -> h.prev

\* the value of the highest-priority accessor that has one for the field
Preferred(up, field) ==
    IF FirstPresent(up.fi, SnapshotKeys[field]) # None
    THEN FirstPresent(up.fi, SnapshotKeys[field])
    ELSE IF FirstPresent(up.info, MetadataKeys[field]) # None
    THEN FirstPresent(up.info, MetadataKeys[field])
    ELSE HistoryValue(up, field)

LastAttemptCompleted ==
    rpc = "returned" /\ outcomes # << >> /\ outcomes[Len(outcomes)] = "completed"

\* C19: for each of the four fields, a completed attempt returns the value
\* of the highest-priority accessor (snapshot, then metadata, then history)
\* that has a present value for the field, a present 0 included; a
\* lower-priority accessor never replaces it.
C19_HighestPriorityAccessorWins ==
    LastAttemptCompleted =>
        \A field \in DOMAIN SnapshotKeys :
            dict_get(ret, field) = safe_float(Preferred(served, field))

\* what a history frame alone supplies for a field
FrameValue(h, field) ==
    IF h = Raises \/ ~usable_frame(h) THEN None
    ELSE LET v == fill_from_history(NothingResolved, h)
         IN  CASE field = "yearHigh" -> v.high
               [] field = "yearLow" -> v.low
               [] field = "close" -> v.close
               [] field = "previousClose" -> v.prev

\* the values the accessors hold for a field: snapshot, metadata, the
\* 1-year history and the 2-year history
Supplied(up, field) ==
    { FirstPresent(up.fi, SnapshotKeys[field]),
      FirstPresent(up.info, MetadataKeys[field]),
      FrameValue(history_1y(NothingResolved, up), field),
      FrameValue(up.h2, field) }

\* some accessor holds a number for the field
CanSupply(up, field) == \E v \in Supplied(up, field) : safe_float(v) # None

\* C20: each of the four fields is resolved independently: whenever some
\* accessor can supply a field, that field is present in the quote a
\* completed attempt returns, whether or not the other fields could be
\* resolved.
C20_FieldsResolvedIndependently ==
    LastAttemptCompleted =>
        \A field \in DOMAIN SnapshotKeys :
            CanSupply(served, field) => dict_get(ret, field) # None

\* the attempt that was served last has ended, by returning or by backing off
AttemptEnded == rpc \in {"sleep", "returned"} /\ outcomes # << >>

\* C21: when the snapshot or the metadata accessor raises, the attempt falls
\* through to the history tier, so a field the history can supply is in the
\* quote that attempt returns; the attempt is not given up (retried, or
\* answered all-absent) before that tier has been tried.
C21_AccessorErrorFallsThrough ==
    (AttemptEnded /\ attempt_raises(served)) =>
        \A field \in DOMAIN SnapshotKeys :
            HistoryValue(served, field) # None =>
                (rpc = "returned" /\ dict_get(ret, field) # None)

\* the fields as the snapshot and metadata tiers leave them
DirectTiers(up) ==
    metadata_tier(snapshot_tier(py_or(up.fi, EmptyDict)), py_or(up.info, EmptyDict))

FieldOf(cur, field) ==
    CASE field = "yearHigh" -> cur.high
      [] field = "yearLow" -> cur.low
      [] field = "close" -> cur.close
      [] field = "previousClose" -> cur.prev

\* a frame with at least one row that holds a high, a low or a close
HasUsableRows(h) ==
    /\ h # None /\ h # Raises
    /\ \E i \in DOMAIN h[2] : \E c \in AllColumns : h[2][i][c] # NaN

\* C22: when history is needed and the 1-year window returns no usable rows
\* (the query failed, the frame is empty, or its rows hold no usable high,
\* low or close), the attempt issues the 2-year query, and every field still
\* unresolved that the 2-year series can supply is filled from it.
C22_TwoYearFallback ==
    (/\ LastAttemptCompleted
     /\ need_hist(DirectTiers(served))
     /\ ~HasUsableRows(history_1y(DirectTiers(served), served))) =>
        /\ "2y" \in Range(queries)
        /\ \A field \in DOMAIN SnapshotKeys :
              (FieldOf(DirectTiers(served), field) = None
                 /\ FrameValue(served.h2, field) # None) =>
                  dict_get(ret, field) = safe_float(FrameValue(served.h2, field))

\* the frame the history tier of an attempt works on: the 1-year frame if it
\* has rows, else the 2-year frame if it has rows
SeriesUsed(up) ==
    LET hist == history_1y(DirectTiers(up), up)
    IN  IF usable_frame(hist) THEN hist
        ELSE IF up.h2 # Raises /\ usable_frame(up.h2) THEN up.h2
        ELSE None

\* v is the greatest (least) number of the column, NaN when it holds none
IsGreatestOf(v, col) ==
    IF \A i \in DOMAIN col : col[i] = NaN THEN v = NaN
    ELSE /\ \E i \in DOMAIN col : col[i] = v
         /\ \A i \in DOMAIN col : col[i] # NaN => col[i][2] <= v[2]

IsLeastOf(v, col) ==
    IF \A i \in DOMAIN col : col[i] = NaN THEN v = NaN
    ELSE /\ \E i \in DOMAIN col : col[i] = v
         /\ \A i \in DOMAIN col : col[i] # NaN => v[2] <= col[i][2]

\* C23: when neither the snapshot nor the metadata accessor has a 52-week
\* field, the returned yearHigh is the maximum of the High column and the
\* returned yearLow the minimum of the Low column of the history series,
\* for every non-empty series.
C23_HighLowFromHistory ==
    (/\ LastAttemptCompleted
     /\ DirectTiers(served).high = None /\ DirectTiers(served).low = None
     /\ SeriesUsed(served) # None) =>
        /\ dict_get(ret, "yearHigh") # None /\ dict_get(ret, "yearLow") # None
        /\ IsGreatestOf(dict_get(ret, "yearHigh"), Column(SeriesUsed(served), "High"))
        /\ IsLeastOf(dict_get(ret, "yearLow"), Column(SeriesUsed(served), "Low"))

\* highs 10, 15, 9, 20 and lows 5, 6, 4, 3 give 20 and 3
C23_Witness ==
    /\ LastAttemptCompleted
    /\ served.fi = None /\ served.info = None /\ served.h1 = YearFrame
    /\ dict_get(ret, "yearHigh") = PyFloat(20)
    /\ dict_get(ret, "yearLow") = PyFloat(3)

\* the valid closes of a series, oldest first
ValidCloses(h) ==
    IF h = None \/ h = NotInBatch \/ h = Raises THEN << >>
    ELSE dropna(Column(h, "Close"))

\* C24 (52weeks.py): with no direct price or previous-close field, close is
\* the last valid close of the history series and previousClose the
\* second-to-last one; with exactly one valid close, close is resolved and
\* previousClose stays absent.
C24_ClosesFromHistory ==
    (/\ LastAttemptCompleted
     /\ DirectTiers(served).close = None /\ DirectTiers(served).prev = None
     /\ SeriesUsed(served) # None) =>
        LET closes == ValidCloses(SeriesUsed(served))
            n == Len(closes)
        IN  /\ n >= 1 => dict_get(ret, "close") = closes[n]
            /\ n >= 2 => dict_get(ret, "previousClose") = closes[n - 1]
            /\ n = 1 => dict_get(ret, "previousClose") = None

\* C24 (stockpricesdaily.py extract_from_batch): the price is the last valid
\* close of the ticker's daily bars and the change is taken from the
\* second-to-last valid close; with exactly one valid close, the price is
\* resolved all the same.
C24_PriceFromLastValidClose ==
    eb_pc = "returned" =>
        LET closes == ValidCloses(eb_batch)
            n == Len(closes)
        IN  /\ n >= 1 => (eb_ret # None /\ dict_get(eb_ret, "price") = closes[n])
            /\ n >= 2 => dict_get(eb_ret, "change") = float_sub(closes[n], closes[n - 1])

\* the names shown in the rows of the page, top to bottom
ListedNames == [i \in DOMAIN rows_html[2] |-> rows_html[2][i][2].name]

RegistryOrder == [i \in 1..NumSymbols |-> Escaped(SYMBOLS[i][1])]

\* C25: results are collected as the tasks complete (a ticker enters
\* results only once its task has ended, in whatever order that happens),
\* and the board lists the instruments in the order of the symbols mapping,
\* the registry order, whatever the order of arrival was.
C25_BoardListsRegistryOrder ==
    /\ pc = "COLLECT" =>
          (Range(key_order.arrival) = yielded /\ yielded \subseteq Completed)
    /\ (view = "board" /\ d_pc = "done" /\ rows_html # Raises) =>
          ListedNames = RegistryOrder

\* the board has rendered a cache whose values arrived in another order
\* than the registry lists them
C25_Witness ==
    /\ view = "board" /\ d_pc = "done" /\ rows_html # Raises
    /\ saved = "ok"
    /\ key_order.values # registry_tickers
    /\ Len(key_order.values) = NumSymbols

\* what the pass has for a ticker: the vals its task returned, or the
\* all-absent entry if the task raised
ResultOfPass(t) == IF fut[t].st = "returned" THEN fut[t].vals ELSE AllAbsent(script)

\* C26: a pass that runs replaces the envelope wholesale: the values of the
\* envelope it persists are exactly the results of that pass, one entry per
\* requested ticker, and no entry or field of the envelope stored before is
\* carried over.
C26_EnvelopeReplacedWholesale ==
    (pc = "DONE" /\ path = "stale" /\ saved = "ok") =>
        /\ disk = File(json_dumps(payload))
        /\ DOMAIN payload[2] \subseteq {"date", "symbols", "values"}
        /\ dict_get(payload, "values") = PyDict(results)
        /\ DOMAIN results = Range(tickers)
        /\ \A t \in DOMAIN results : results[t] = ResultOfPass(t)

\* a single-ticker pass has replaced an envelope that held an entry with
\* four numbers for every ticker of the registry
C26_Witness ==
    /\ pc = "DONE" /\ path = "stale" /\ saved = "ok"
    /\ cache = FreshEnvelope
    /\ single # None
    /\ DOMAIN WrittenEntries[2] = {single[2]}
    /\ WrittenEntries[2][single[2]] = AllAbsent52

\* C27: a history query, 1-year or 2-year, is issued only when at least one
\* of the four fields is still unresolved after the snapshot and metadata
\* tiers; an attempt that resolves all four there makes no history query.
C27_NoHistoryQueryWhenResolved ==
    (LastAttemptCompleted /\ ~need_hist(DirectTiers(served))) => queries = << >>

\* the cache file holds an envelope the freshness check accepts today
FileIsFresh ==
    /\ disk.kind = "file" /\ ~ReadRaises(disk)
    /\ isinstance_dict(json_loads(disk.text))
    /\ date_is_today(json_loads(disk.text), today)

\* C28: after any sequence of passes (normal, forced, single-ticker),
\* whenever the cache file holds an envelope the freshness check accepts,
\* its values map has an entry for every ticker of the registry.
C28_FreshEnvelopeCoversRegistry ==
    FileIsFresh =>
        /\ isinstance_dict(WrittenEntries)
        /\ Range(registry_tickers) \subseteq DOMAIN WrittenEntries[2]

\* the requests that found the entry empty or stale and have gone upstream
\* for it
Fetching(e) ==
    {r \in 1..NumRequests :
        requests[r].entry = e /\ requests[r].pc \in {"fetch", "store"}}

\* C29: for concurrent /price requests that arrive while an entry (gold or
\* fx) is empty or older than CACHE_TTL, at most one upstream fetch is issued
\* for that entry; and while an entry is valid, get_cached_gold and
\* get_cached_fx return it without an upstream fetch.
C29_OneFetchPerEntry ==
    /\ [](\A e \in {"gold", "fx"} : Cardinality(Fetching(e)) <= 1)
    /\ [][\A r \in 1..NumRequests :
            (requests[r].pc = "check" /\ is_cache_valid(gold_cache[requests[r].entry])) =>
                requests'[r].pc # "fetch"]_vars

EntryConsistent(entry) == (entry.value = None) <=> (entry.ts = None)

IsStatus(resp, status) == resp # None /\ resp[2] = status

\* C30: under any interleaving of requests each cache entry has value and
\* ts both unset or both set; a fetch that fails on every retry attempt
\* leaves the entry unchanged and is answered with HTTP 502, and a price is
\* only computed from two values that were obtained.
C30_EntryConsistentAndFailureIs502 ==
    /\ [](\A e \in {"gold", "fx"} : EntryConsistent(gold_cache[e]))
    /\ [](\A r \in 1..NumRequests :
            /\ IsStatus(requests[r].resp, 200) =>
                  (requests[r].gold # None /\ requests[r].fx # None)
            /\ IsStatus(requests[r].resp, 502) =>
                  (requests[r].tries = retry_attempts
                     /\ (requests[r].entry = "gold" => requests[r].gold = None)
                     /\ requests[r].fx = None))
    /\ [][\A r \in 1..NumRequests :
            (requests[r].pc = "fetch" /\ requests'[r].tries # requests[r].tries) =>
                /\ gold_cache' = gold_cache
                /\ IF requests'[r].tries = retry_attempts
                   THEN IsStatus(requests'[r].resp, 502)
                   ELSE requests'[r].pc = "fetch"]_vars

\* a request was answered 502 after its fx fetch failed twice, the fx entry
\* still unset and the gold entry set by the same request
C30_Witness ==
    \E r \in 1..NumRequests :
        /\ IsStatus(requests[r].resp, 502)
        /\ requests[r].entry = "fx"
        /\ gold_cache.fx = EmptyEntry
        /\ gold_cache.gold.value # None /\ gold_cache.gold.ts # None

=============================================================================
